---- MODULE Spec2Model ----
(***************************************************************************)
(* FAIRS roulette player: the training execution engine.                   *)
(*                                                                         *)
(* Three scheduling domains are modelled and interleaved step by step:     *)
(*   - the request handlers of TrainingEndpoint (routes/training.py),      *)
(*   - the job thread that runs run_training_job / run_resume_training_job *)
(*     and its monitor_training_process loop (routes/training.py),         *)
(*   - the worker process: run_training_process and the DQNTraining loop   *)
(*     (utils/services/training/worker.py, learning/training/fitting.py).  *)
(* time.monotonic() is a clock per job thread that advances in steps of    *)
(* TickSeconds once the stop event of the job's worker is set.             *)
(* JobManager (FAIRS.server.services.jobs) is modelled from its contract:  *)
(* a job is running from start_job until its runner returns, and          *)
(* cancel_job sets the cancel flag that should_stop reads.                 *)
(***************************************************************************)
EXTENDS Integers, Sequences, FiniteSets, TLC

\* ------------------------------------------------------------------ bounds
MaxJobs == 2            \* job ids handed out by the job manager: 1..MaxJobs
MaxEpisodes == 1        \* episodes / additional_episodes of a request
MaxStepsEpisode == 3    \* max_steps_episode of every configuration
ReplayBufferSize == 1   \* replay_buffer_size of every configuration
MaxMemorySize == 2      \* max_memory_size of every configuration
InitialCapital == 1     \* initial_capital of every configuration
BetAmount == 1          \* bet_amount of every configuration
TickSeconds == 5        \* seconds between two readings of the clock
MaxStepsLong == 22      \* max_steps_episode of a long episode (> 20 buckets)

\* --------------------------------------------------------- program constants
HISTORY_POINTS_PER_EPISODE == 20
StopTimeoutSeconds == 5

Jobs == 1..MaxJobs
NoJob == 0              \* None, where a job id or a worker is expected
NoneVal == -1           \* None, where a natural number is expected
NoCode == 99            \* exitcode None: the process has not ended

VARIABLES
    \* TrainingState singleton (training_state)
    is_training, current_job_id, ts_worker, latest_stats, history_points,
    \* JobManager
    jobs,
    \* the request handler in flight
    req,
    \* job thread of each job
    jpc, stop_requested_at, payload, outcome,
    \* worker process of each job and its channels
    wpc, exitcode, stop_event, progress_queue, result_queue, kwargs, trainer,
    \* checkpoint folder
    checkpoint,
    \* clock of each job
    now,
    \* history variables of the verification
    resultsPut, lastSent, observed, honoured,
    \* a DQNAgent on its own: its fields, and the record of its calls
    agent, agent_log,
    \* a BetsAndRewards player inside a RouletteEnvironment, and its last call
    env,
    \* a BetSizer on its own: its fields, and the record of its last call
    sizer, sizer_log,
    \* a StrategyHold: its fields, and the record of its last call
    hold, hold_log,
    \* a live-play session: InferenceSession, its RoulettePlayer and the
    \* answer to the last request
    session

tsVars == <<is_training, current_job_id, ts_worker, latest_stats, history_points>>
jobVars == <<jpc, stop_requested_at, payload, outcome>>
chanVars == <<stop_event, progress_queue, result_queue>>
procVars == <<wpc, exitcode, kwargs, trainer>>
ghostVars == <<resultsPut, lastSent, observed, honoured>>
engineVars == <<tsVars, jobs, req, jobVars, chanVars, procVars,
                checkpoint, now, ghostVars>>
agentVars == <<agent, agent_log>>
sizerVars == <<sizer, sizer_log>>
playVars == <<hold, hold_log, session>>
unitVars == <<agentVars, env, sizerVars, playVars>>
vars == <<engineVars, unitVars>>

\* ------------------------------------------------------------------ helpers
Min(a, b) == IF a < b THEN a ELSE b

Last(s) == s[Len(s)]

\* lexicographic order on <<epoch, time_step>>
LexLeq(a, b) == a[1] < b[1] \/ (a[1] = b[1] /\ a[2] <= b[2])

TerminalStatuses == {"completed", "error", "cancelled"}

\* TrainingState.__init__: latest_stats
IdleStats ==
    [epoch |-> 0, total_epochs |-> 0, time_step |-> 0,
     loss |-> "None", status |-> "idle"]

\* DQNTraining.__init__: max_steps is max_steps_episode of the configuration
NewTrainer(start, total, stats, max_steps) ==
    [episode |-> start, episodes |-> total, time_step |-> 0,
     max_steps |-> max_steps,
     capital |-> InitialCapital, steps |-> 0, memory_len |-> 0,
     session_stats |-> stats,
     last_history_episode |-> NoneVal, last_history_bucket |-> NoneVal,
     last_progress_episode |-> NoneVal, last_progress_bucket |-> NoneVal]

NoTrainer == NewTrainer(0, 0, <<>>, 0)

NoKwargs == [kind |-> "none", episodes |-> 0, max_steps |-> 0]

NoCheckpoint == [exists |-> FALSE, history |-> <<>>, total_episodes |-> 0,
                 max_steps |-> 0, memory_len |-> 0]

\* no training_update sent yet
NoMsg == [epoch |-> 0, total_epochs |-> 0, time_step |-> 0,
          loss |-> "None", status |-> "none"]

IdleReq == [pc |-> "idle", op |-> "none", job |-> NoJob, episodes |-> 0,
            from_epoch |-> 0, restored |-> <<>>, code |-> 0]

\* the handler raised HTTPException(status_code=code)
Rejected(op, code) == [IdleReq EXCEPT !.pc = "reply", !.op = op, !.code = code]

\* ProcessWorker.is_alive
is_alive(j) == wpc[j] \in {"entry", "episode", "step", "finish", "hung"}

\* ProcessWorker.is_interrupted / WorkerChannels.is_interrupted
is_interrupted(j) == stop_event[j]

\* ---------------------------------------------------------------- JobManager
\* JobManager.is_job_running(job_type)
is_job_running == \E j \in Jobs : jobs[j].status = "running"

\* JobManager.should_stop(job_id)
should_stop(j) == jobs[j].stop_requested

\* JobManager.cancel_job(job_id): only a running job can be cancelled
cancel_job(j) ==
    IF jobs[j].status = "running"
    THEN [jobs EXCEPT ![j].stop_requested = TRUE]
    ELSE jobs

\* the next job id the manager hands out (NoJob when the ids are used up)
NextJobId ==
    IF \E j \in Jobs : jobs[j].status = "none"
    THEN CHOOSE j \in Jobs : /\ jobs[j].status = "none"
                              /\ \A k \in Jobs : jobs[k].status = "none" => j <= k
    ELSE NoJob

\* --------------------------------------------------------------------- Init
\* the training engine at server start-up
EngineInit ==
    /\ is_training = FALSE
    /\ current_job_id = NoJob
    /\ ts_worker = NoJob
    /\ latest_stats = IdleStats
    /\ history_points = <<>>
    /\ jobs = [j \in Jobs |-> [status |-> "none", stop_requested |-> FALSE]]
    /\ req = IdleReq
    /\ jpc = [j \in Jobs |-> "none"]
    /\ stop_requested_at = [j \in Jobs |-> NoneVal]
    /\ payload = [j \in Jobs |-> "none"]
    /\ outcome = [j \in Jobs |-> "none"]
    /\ wpc = [j \in Jobs |-> "none"]
    /\ exitcode = [j \in Jobs |-> NoCode]
    /\ stop_event = [j \in Jobs |-> FALSE]
    /\ progress_queue = [j \in Jobs |-> <<>>]
    /\ result_queue = [j \in Jobs |-> <<>>]
    /\ kwargs = [j \in Jobs |-> NoKwargs]
    /\ trainer = [j \in Jobs |-> NoTrainer]
    /\ checkpoint = NoCheckpoint
    /\ now = [j \in Jobs |-> 0]
    /\ resultsPut = [j \in Jobs |-> 0]
    /\ lastSent = [j \in Jobs |-> NoMsg]
    /\ observed = [j \in Jobs |-> <<0, 0>>]
    /\ honoured = [j \in Jobs |-> FALSE]

\* no agent, environment or bet sizer has been built on its own
NoAgent == [memory |-> <<>>, memory_size |-> 0, replay_size |-> 0,
            batch_size |-> 0, epsilon |-> 0, epsilon_min |-> 0,
            epsilon_decay |-> 0]

NoAgentLog == [epsilon_start |-> 0, inserted |-> 0, acted |-> 0,
               replays |-> 0, batch |-> 0, online |-> 0, target |-> 0,
               aliased |-> FALSE, rollout |-> <<>>]

AgentIdle == agent = NoAgent /\ agent_log = NoAgentLog

NoEnv == [bet_amount |-> 0, initial_capital |-> 0, capital |-> 0, steps |-> 0,
          action |-> NoneVal, extraction |-> NoneVal, capital_before |-> 0,
          reward |-> 0, rewards |-> <<>>, scaled |-> <<>>]

EnvIdle == env = NoEnv

NoSizer == [base_bet |-> 0, unit |-> 0, bet_enforce_capital |-> FALSE,
            bet_max |-> 0, current_bet |-> 0, fib_index |-> 0,
            fib_values |-> <<>>, last_outcome |-> "neutral"]

NoSizerLog == [call |-> "none", strategy |-> NoneVal, capital |-> NoneVal,
               previous_bet |-> 0, unclamped |-> 0, returned |-> 0]

SizerIdle == sizer = NoSizer /\ sizer_log = NoSizerLog

NoHold == [hold_steps |-> 0, fallback_strategy_id |-> 0,
           current_strategy_id |-> NoneVal, hold_remaining |-> 0]

NoHoldLog == [call |-> "none", configured_steps |-> 0, selected |-> NoneVal,
              returned |-> NoneVal, accepted |-> FALSE, run |-> 0]

NoResponse == [call |-> "none", status |-> 0, detail |-> "", extraction |-> NoneVal]

NoSession == [open |-> FALSE, step_count |-> 0, prediction_pending |-> FALSE,
              has_prediction |-> FALSE, prediction_step |-> 0,
              initial_capital |-> 0, current_bet |-> 0, capital |-> 0,
              bet_amount |-> 0, window |-> <<>>, last_action |-> NoneVal,
              dynamic |-> FALSE, auto_apply |-> FALSE,
              fixed_strategy_id |-> 0, response |-> NoResponse]

PlayIdle == hold = NoHold /\ hold_log = NoHoldLog /\ session = NoSession

Init == EngineInit /\ AgentIdle /\ EnvIdle /\ SizerIdle /\ PlayIdle


\* ------------------------------------------------------------ TrainingState
max_history_points == 2000

\* TrainingState.add_history_point
add_history_point(hp, stats) ==
    IF stats.status \notin {"training", "exploration"} THEN hp
    ELSE IF stats.loss = "None" THEN hp
    ELSE IF stats.epoch <= 0 THEN hp
    ELSE
      LET point == [epoch |-> stats.epoch, time_step |-> stats.time_step]
          appended == Append(hp, point)
          trimmed ==
            IF Len(appended) > max_history_points
            THEN SubSeq(appended, Len(appended) - max_history_points + 1,
                        Len(appended))
            ELSE appended
      IN IF hp # <<>> /\ Last(hp).epoch = point.epoch
                      /\ Last(hp).time_step = point.time_step
         THEN [hp EXCEPT ![Len(hp)] = point]
         ELSE IF hp # <<>> /\ point.epoch < Last(hp).epoch THEN hp
         ELSE IF hp # <<>> /\ point.epoch = Last(hp).epoch
                           /\ point.time_step < Last(hp).time_step THEN hp
         ELSE trimmed

\* TrainingState.update_stats with a training_update of the worker: the
\* message carries every key, so the merge replaces every field
update_stats(ls, hp, msg) ==
    LET merged == [epoch |-> msg.epoch, total_epochs |-> msg.total_epochs,
                   time_step |-> msg.time_step, loss |-> msg.loss,
                   status |-> msg.status]
    IN [stats |-> merged, history |-> add_history_point(hp, merged)]

\* TrainingState.update_stats({"status": s, ...}): only the status changes
update_status(ls, hp, s) ==
    LET merged == [ls EXCEPT !.status = s]
    IN [stats |-> merged, history |-> add_history_point(hp, merged)]

\* TrainingState.update_stats({"status": "completed", "epoch": final_epoch})
update_completed(ls, hp) ==
    LET merged == [ls EXCEPT !.status = "completed", !.epoch = ls.total_epochs]
    IN [stats |-> merged, history |-> add_history_point(hp, merged)]

\* TrainingState.reset_for_new_session: the latest_stats it installs
ResetStats(total_epochs) ==
    [epoch |-> 0, total_epochs |-> total_epochs, time_step |-> 0,
     loss |-> "None", status |-> "exploration"]

\* build_history_points: one point per stored step whose epoch is positive
RECURSIVE build_history_points(_)
build_history_points(history) ==
    IF history = <<>> THEN <<>>
    ELSE LET rest == build_history_points(Tail(history))
             h == Head(history)
         IN IF h.episode > 0
            THEN <<[epoch |-> h.episode, time_step |-> h.time_step]>> \o rest
            ELSE rest

\* worker.stop(): stop_event.set()
SetStop(j) == stop_event' = [stop_event EXCEPT ![j] = TRUE]

\* --------------------------------------------------------- request handlers
handlerFrame == <<stop_requested_at, payload, outcome, wpc, exitcode, trainer,
                  checkpoint, now, resultsPut, lastSent, observed, honoured,
                  progress_queue, result_queue>>

\* JobManager.start_job: registers the job and starts its thread
start_job(j, kind, eps, max_steps) ==
    /\ jobs' = [jobs EXCEPT ![j] = [status |-> "running",
                                    stop_requested |-> FALSE]]
    /\ jpc' = [jpc EXCEPT ![j] = "init"]
    /\ kwargs' = [kwargs EXCEPT ![j] = [kind |-> kind, episodes |-> eps,
                                        max_steps |-> max_steps]]

start_rejected_never == FALSE

\* TrainingEndpoint.start_training / resume_training: the is_job_running test
\* that rejects the request with 409
start_rejected == is_job_running

\* TrainingEndpoint.start_training, up to and including start_job
start_training(eps, max_steps) ==
    /\ req.pc = "idle"
    /\ IF start_rejected
       THEN /\ req' = Rejected("start", 409)
            /\ UNCHANGED <<jobs, jpc, kwargs>>
       ELSE /\ NextJobId # NoJob
            /\ start_job(NextJobId, "train", eps, max_steps)
            /\ req' = [IdleReq EXCEPT !.pc = "reset", !.op = "start",
                                      !.job = NextJobId, !.episodes = eps]
    /\ UNCHANGED <<tsVars, handlerFrame, stop_event>>
    /\ UNCHANGED unitVars

\* start_training with max_steps_episode = MaxStepsEpisode
StartTraining(eps) == start_training(eps, MaxStepsEpisode)

\* TrainingEndpoint.resume_training, up to and including start_job
ResumeTraining(eps) ==
    /\ req.pc = "idle"
    /\ IF start_rejected
       THEN /\ req' = Rejected("resume", 409)
            /\ UNCHANGED <<jobs, jpc, kwargs>>
       ELSE /\ checkpoint.exists
            /\ NextJobId # NoJob
            /\ start_job(NextJobId, "resume", eps, checkpoint.max_steps)
            /\ req' = [IdleReq EXCEPT
                         !.pc = "reset", !.op = "resume",
                         !.job = NextJobId, !.episodes = eps,
                         !.from_epoch = checkpoint.total_episodes,
                         !.restored = build_history_points(checkpoint.history)]
    /\ UNCHANGED <<tsVars, handlerFrame, stop_event>>
    /\ UNCHANGED unitVars

\* start_training after start_job: reset_for_new_session and the answer
StartReset ==
    /\ req.pc = "reset"
    /\ req.op = "start"
    /\ is_training' = TRUE
    /\ current_job_id' = req.job
    /\ latest_stats' = ResetStats(req.episodes)
    /\ history_points' = <<>>
    /\ req' = IdleReq
    /\ UNCHANGED <<ts_worker, jobs, jpc, kwargs, handlerFrame, stop_event>>
    /\ UNCHANGED unitVars

\* resume_training after start_job: reset, restored history, from_epoch
ResumeReset ==
    /\ req.pc = "reset"
    /\ req.op = "resume"
    /\ is_training' = TRUE
    /\ current_job_id' = req.job
    /\ latest_stats' = [ResetStats(req.from_epoch + req.episodes)
                          EXCEPT !.epoch = req.from_epoch]
    /\ history_points' = req.restored
    /\ req' = IdleReq
    /\ UNCHANGED <<ts_worker, jobs, jpc, kwargs, handlerFrame, stop_event>>
    /\ UNCHANGED unitVars

\* TrainingEndpoint.stop_training: the is_training test (400 when it fails)
\* and worker.stop()
StopTrainingSignal ==
    /\ req.pc = "idle"
    /\ IF ~is_training
       THEN /\ req' = Rejected("stop", 400)
            /\ UNCHANGED stop_event
       ELSE /\ IF ts_worker # NoJob THEN SetStop(ts_worker)
               ELSE UNCHANGED stop_event
            /\ req' = [IdleReq EXCEPT !.pc = "cancel", !.op = "stop"]
    /\ UNCHANGED <<tsVars, jobs, jpc, kwargs, handlerFrame>>
    /\ UNCHANGED unitVars

\* TrainingEndpoint.cancel_training_job: the job lookup (404 when it fails)
\* and worker.stop()
CancelJobSignal(j) ==
    /\ req.pc = "idle"
    /\ jobs[j].status # "none"
    /\ IF ts_worker # NoJob THEN SetStop(ts_worker) ELSE UNCHANGED stop_event
    /\ req' = [IdleReq EXCEPT !.pc = "cancel", !.op = "cancel", !.job = j]
    /\ UNCHANGED <<tsVars, jobs, jpc, kwargs, handlerFrame>>
    /\ UNCHANGED unitVars

\* stop_training / cancel_training_job: job_manager.cancel_job and the answer;
\* stop_training cancels the job that is current when it gets here
CancelJob ==
    /\ req.pc = "cancel"
    /\ LET job_id == IF req.op = "stop" THEN current_job_id ELSE req.job
       IN jobs' = IF job_id # NoJob THEN cancel_job(job_id) ELSE jobs
    /\ req' = IdleReq
    /\ UNCHANGED <<tsVars, jpc, kwargs, handlerFrame, stop_event>>
    /\ UNCHANGED unitVars

\* the answer of a rejected request is sent: 409 for a start or a resume,
\* 400 for a stop
Reply ==
    /\ req.pc = "reply"
    /\ req' = IdleReq
    /\ UNCHANGED <<tsVars, jobs, jpc, kwargs, handlerFrame, stop_event>>
    /\ UNCHANGED unitVars

\* ---------------------------------------------------------------- job thread
\* handle_training_progress applied to the pending messages, oldest first
\* (worker.poll followed by drain_worker_progress)
RECURSIVE handle_all(_, _, _)
handle_all(ls, hp, q) ==
    IF q = <<>> THEN [stats |-> ls, history |-> hp]
    ELSE LET u == update_stats(ls, hp, Head(q))
         IN handle_all(u.stats, u.history, Tail(q))

Terminate_no_kill(j) == UNCHANGED <<wpc, exitcode, trainer>>

\* ProcessWorker.terminate -> terminate_process_tree: SIGTERM, then SIGKILL
Terminate(j) ==
    /\ wpc' = [wpc EXCEPT ![j] = "killed"]
    /\ exitcode' = [exitcode EXCEPT ![j] = -15]
    /\ trainer' = [trainer EXCEPT ![j] = NoTrainer]

\* run_training_job / run_resume_training_job up to worker.start:
\* training_state.worker = worker, and ProcessWorker.start spawns the process
JobStart(j) ==
    /\ jpc[j] = "init"
    /\ ~is_alive(j)
    /\ ts_worker' = j
    /\ wpc' = [wpc EXCEPT ![j] = "entry"]
    /\ jpc' = [jpc EXCEPT ![j] = "loop"]
    /\ UNCHANGED <<is_training, current_job_id, latest_stats, history_points,
                   jobs, req, stop_requested_at, payload, outcome, chanVars,
                   exitcode, kwargs, trainer, checkpoint, now, ghostVars>>
    /\ UNCHANGED unitVars

\* monitor_training_process, one pass over the head of the while loop:
\* the is_alive test, the stop request and the grace-period test
MonitorLoop(j) ==
    /\ jpc[j] = "loop"
    /\ IF ~is_alive(j)
       THEN /\ jpc' = [jpc EXCEPT ![j] = "join"]
            /\ UNCHANGED <<stop_requested_at, stop_event, wpc,
                           exitcode, trainer>>
       ELSE LET stopNow == should_stop(j) /\ ~is_interrupted(j)
                at == IF stopNow THEN now[j] ELSE stop_requested_at[j]
            IN /\ stop_requested_at' = [stop_requested_at EXCEPT ![j] = at]
               /\ IF stopNow THEN SetStop(j)
                  ELSE UNCHANGED stop_event
               /\ IF at # NoneVal /\ now[j] - at >= StopTimeoutSeconds
                  THEN /\ Terminate(j)
                       /\ jpc' = [jpc EXCEPT ![j] = "join"]
                  ELSE /\ jpc' = [jpc EXCEPT ![j] = "poll"]
                       /\ UNCHANGED <<wpc, exitcode, trainer>>
    /\ UNCHANGED <<tsVars, jobs, req, payload, outcome,
                   progress_queue, result_queue, kwargs, checkpoint, now,
                   ghostVars>>
    /\ UNCHANGED unitVars

\* the progress messages of job j reach the caller
DrainProgress(j) ==
    LET u == handle_all(latest_stats, history_points, progress_queue[j])
    IN /\ latest_stats' = u.stats
       /\ history_points' = u.history
       /\ progress_queue' = [progress_queue EXCEPT ![j] = <<>>]
       /\ observed' = IF progress_queue[j] = <<>> THEN observed
                      ELSE [observed EXCEPT ![j] =
                              <<Last(progress_queue[j]).epoch,
                                Last(progress_queue[j]).time_step>>]

\* monitor_training_process, the rest of the loop body: worker.poll and,
\* on a message, handle_training_progress and drain_worker_progress
MonitorPoll(j) ==
    /\ jpc[j] = "poll"
    /\ DrainProgress(j)
    /\ jpc' = [jpc EXCEPT ![j] = "loop"]
    /\ UNCHANGED <<is_training, current_job_id, ts_worker, jobs, req,
                   stop_requested_at, payload, outcome, stop_event,
                   result_queue, procVars, checkpoint, now, resultsPut,
                   lastSent, honoured>>
    /\ UNCHANGED unitVars

\* ProcessWorker.read_result: result_queue.get_nowait()
read_result(j) ==
    IF result_queue[j] = <<>> THEN [type |-> "none", error |-> ""]
    ELSE Head(result_queue[j])

MonitorOutcome_lenient(j, result_payload) ==
    IF result_payload.type = "error" /\ result_payload.error # ""
    THEN "raise"
    ELSE "return"

\* monitor_training_process, from read_result to the return or the raise
MonitorOutcome(j, result_payload) ==
    IF result_payload.type = "none"
    THEN IF exitcode[j] \notin {0, NoCode} /\ ~should_stop(j)
         THEN "raise" ELSE "return"
    ELSE IF result_payload.type = "error" /\ result_payload.error # ""
    THEN "raise"
    ELSE "return"

drain_after_exit_skipped(j) ==
    UNCHANGED <<latest_stats, history_points, progress_queue, observed>>

\* monitor_training_process: drain_worker_progress after worker.join
drain_after_exit(j) == DrainProgress(j)

\* monitor_training_process after the loop: worker.join(timeout=5), the final
\* drain_worker_progress, read_result and the return or the raise
MonitorJoin(j) ==
    /\ jpc[j] = "join"
    /\ drain_after_exit(j)
    /\ LET result_payload == read_result(j) IN
         /\ payload' = [payload EXCEPT ![j] = result_payload.type]
         /\ outcome' = [outcome EXCEPT ![j] = MonitorOutcome(j, result_payload)]
         /\ result_queue' = [result_queue EXCEPT ![j] =
                               IF result_queue[j] = <<>> THEN <<>>
                               ELSE Tail(result_queue[j])]
    /\ jpc' = [jpc EXCEPT ![j] = "final"]
    /\ UNCHANGED <<is_training, current_job_id, ts_worker, jobs, req,
                   stop_requested_at, stop_event, procVars, checkpoint, now,
                   resultsPut, lastSent, honoured>>
    /\ UNCHANGED unitVars

\* run_training_job / run_resume_training_job after
\* monitor_training_process: the terminal status
FinalStatus(j) ==
    IF outcome[j] = "raise" THEN "error"
    ELSE IF should_stop(j) THEN "cancelled"
    ELSE "completed"

\* run_training_job: training_state.update_stats with the terminal status
JobFinalUpdate(j) ==
    /\ jpc[j] = "final"
    /\ LET u == IF FinalStatus(j) = "completed"
                THEN update_completed(latest_stats, history_points)
                ELSE update_status(latest_stats, history_points, FinalStatus(j))
       IN /\ latest_stats' = u.stats
          /\ history_points' = u.history
    /\ jpc' = [jpc EXCEPT ![j] = "finally"]
    /\ UNCHANGED <<is_training, current_job_id, ts_worker, jobs, req,
                   stop_requested_at, payload, outcome, chanVars, procVars,
                   checkpoint, now, ghostVars>>
    /\ UNCHANGED unitVars

\* run_training_job, the finally block: terminate a live worker, cleanup,
\* training_state.finish_session
JobFinally(j) ==
    /\ jpc[j] = "finally"
    /\ IF is_alive(j) THEN Terminate(j)
       ELSE UNCHANGED <<wpc, exitcode, trainer>>
    /\ progress_queue' = [progress_queue EXCEPT ![j] = <<>>]
    /\ result_queue' = [result_queue EXCEPT ![j] = <<>>]
    /\ is_training' = FALSE
    /\ ts_worker' = NoJob
    /\ current_job_id' = NoJob
    /\ jpc' = [jpc EXCEPT ![j] = "return"]
    /\ UNCHANGED <<latest_stats, history_points, jobs, req,
                   stop_requested_at, payload, outcome, stop_event, kwargs,
                   checkpoint, now, ghostVars>>
    /\ UNCHANGED unitVars

\* JobManager: the runner of job j returned or raised; the thread ends and
\* its ProcessWorker, with the channels and the dead process, is released
JobReturn(j) ==
    /\ jpc[j] = "return"
    /\ jobs' = [jobs EXCEPT ![j] = [status |-> "finished",
                                    stop_requested |-> FALSE]]
    /\ jpc' = [jpc EXCEPT ![j] = "done"]
    /\ stop_requested_at' = [stop_requested_at EXCEPT ![j] = NoneVal]
    /\ payload' = [payload EXCEPT ![j] = "none"]
    /\ outcome' = [outcome EXCEPT ![j] = "none"]
    /\ wpc' = [wpc EXCEPT ![j] = "none"]
    /\ exitcode' = [exitcode EXCEPT ![j] = NoCode]
    /\ stop_event' = [stop_event EXCEPT ![j] = FALSE]
    /\ kwargs' = [kwargs EXCEPT ![j] = NoKwargs]
    /\ now' = [now EXCEPT ![j] = 0]
    /\ resultsPut' = [resultsPut EXCEPT ![j] = 0]
    /\ lastSent' = [lastSent EXCEPT ![j] = NoMsg]
    /\ observed' = [observed EXCEPT ![j] = <<0, 0>>]
    /\ honoured' = [honoured EXCEPT ![j] = FALSE]
    /\ UNCHANGED <<tsVars, req, progress_queue, result_queue, trainer,
                   checkpoint>>
    /\ UNCHANGED unitVars

\* ------------------------------------------------------------ worker process
\* the rewards a step can produce: a lost bet and the "pass" action
Rewards == {-BetAmount, 0}

\* ErrorTexts: str(exc) of the exceptions a worker can raise
ErrorTexts == {"", "failure"}

\* the history bucket of a time step (update_session_stats, _handle_ws_updates);
\* time_step / (max_steps / 20.0) is computed in exact arithmetic, and the
\* bucket size is 1.0 when max_steps is not positive
bucket_of(max_steps, time_step) ==
    LET bucket == IF max_steps > 0
                  THEN (HISTORY_POINTS_PER_EPISODE * time_step) \div max_steps
                  ELSE time_step
    IN IF max_steps >= HISTORY_POINTS_PER_EPISODE
       THEN Min(HISTORY_POINTS_PER_EPISODE - 1, bucket)
       ELSE bucket

\* DQNAgent.is_training_ready
is_training_ready(tr) == tr.memory_len > ReplayBufferSize

\* DQNAgent.remember: append to a deque(maxlen=max_memory_size)
remember(tr) ==
    [tr EXCEPT !.memory_len = Min(tr.memory_len + 1, MaxMemorySize)]

\* DQNTraining.update_session_stats
update_session_stats(tr, episode, time_step) ==
    LET bucket == bucket_of(tr.max_steps, time_step)
        lastBucket == IF tr.last_history_episode # episode THEN NoneVal
                      ELSE tr.last_history_bucket
        tr1 == [tr EXCEPT !.last_history_episode = episode,
                          !.last_history_bucket = lastBucket]
    IN IF lastBucket = bucket THEN tr1
       ELSE [tr1 EXCEPT
               !.last_history_bucket = bucket,
               !.session_stats = Append(tr.session_stats,
                   [episode |-> episode + 1, time_step |-> time_step])]

\* DQNTraining._handle_replay_and_logging
handle_replay_and_logging(tr, episode, time_step) ==
    IF ~is_training_ready(tr) THEN tr
    ELSE update_session_stats(tr, episode, time_step)

\* DQNTraining.get_latest_stats
get_latest_stats(tr, episode, total_episodes, training_ready) ==
    [epoch |-> episode + 1,
     total_epochs |-> total_episodes,
     time_step |-> IF tr.session_stats = <<>> THEN 0
                   ELSE Last(tr.session_stats).time_step,
     loss |-> "num",
     status |-> IF training_ready THEN "training" ELSE "exploration"]

reporter_no_drain(queue, message) == Append(queue, message)

\* QueueProgressReporter.__call__ for a training_update: drain_queue, then put
reporter(queue, message) == <<message>>

\* DQNTraining._handle_ws_updates: the trainer state and whether an update is
\* sent for this step
progress_due(tr, episode, time_step) ==
    LET lastBucket == IF tr.last_progress_episode # episode THEN NoneVal
                      ELSE tr.last_progress_bucket
    IN lastBucket # bucket_of(tr.max_steps, time_step)

\* DQNTraining._handle_ws_updates: last_progress_episode / last_progress_bucket
handle_ws_updates(tr, episode, time_step) ==
    [tr EXCEPT !.last_progress_episode = episode,
               !.last_progress_bucket = bucket_of(tr.max_steps, time_step)]

\* the process ends: its memory is gone
Exit(j, code, pc) ==
    /\ wpc' = [wpc EXCEPT ![j] = pc]
    /\ exitcode' = [exitcode EXCEPT ![j] = code]
    /\ trainer' = [trainer EXCEPT ![j] = NoTrainer]

\* result_queue.put(message)
PutResult(j, message) ==
    /\ result_queue' = [result_queue EXCEPT ![j] = Append(@, message)]
    /\ resultsPut' = [resultsPut EXCEPT ![j] = @ + 1]

workerFrame == <<tsVars, jobs, req, jobVars, stop_event, kwargs, now,
                 observed>>

\* run_training_process / run_resume_training_process up to the training
\* loop: the stop test at entry, the checkpoint load and DQNTraining.__init__
StoppedAtEntry_silent(j) ==
    /\ Exit(j, 0, "exited")
    /\ UNCHANGED <<result_queue, resultsPut>>

\* run_training_process, the stop flag is set at entry: an empty result is
\* put and the function returns
StoppedAtEntry(j) ==
    /\ PutResult(j, [type |-> "result", error |-> ""])
    /\ Exit(j, 0, "exited")

WorkerEntry(j) ==
    /\ wpc[j] = "entry"
    /\ IF stop_event[j]
       THEN StoppedAtEntry(j)
       ELSE /\ trainer' = [trainer EXCEPT ![j] =
                 IF kwargs[j].kind = "resume"
                 THEN NewTrainer(checkpoint.total_episodes,
                                 checkpoint.total_episodes + kwargs[j].episodes,
                                 checkpoint.history, kwargs[j].max_steps)
                 ELSE NewTrainer(0, kwargs[j].episodes, <<>>,
                                 kwargs[j].max_steps)]
            /\ wpc' = [wpc EXCEPT ![j] = "episode"]
            /\ UNCHANGED <<exitcode, result_queue, resultsPut>>
    /\ UNCHANGED <<workerFrame, progress_queue, checkpoint, lastSent, honoured>>
    /\ UNCHANGED unitVars

training_never_stops(j) == FALSE

\* DQNTraining.should_stop in the worker of job j; cancel_training has no
\* caller, so is_cancelled stays False
training_should_stop(j) == stop_event[j]

\* train_with_reinforcement_learning, head of the episode loop
WorkerEpisode(j) ==
    /\ wpc[j] = "episode"
    /\ LET tr == trainer[j] IN
         IF tr.episode >= tr.episodes \/ training_should_stop(j)
         THEN /\ wpc' = [wpc EXCEPT ![j] = "finish"]
              /\ honoured' = [honoured EXCEPT ![j] =
                                @ \/ tr.episode < tr.episodes]
              /\ UNCHANGED trainer
         ELSE /\ wpc' = [wpc EXCEPT ![j] = "step"]
              /\ trainer' = [trainer EXCEPT ![j] =
                   [tr EXCEPT !.capital = InitialCapital, !.steps = 0,
                              !.time_step = 0]]
              /\ UNCHANGED honoured
    /\ UNCHANGED <<workerFrame, exitcode, progress_queue, result_queue,
                   checkpoint, resultsPut, lastSent>>
    /\ UNCHANGED unitVars

\* train_with_reinforcement_learning, one pass of the step loop
WorkerStep(j, reward) ==
    /\ wpc[j] = "step"
    /\ LET tr == trainer[j]
           episode == tr.episode
           time_step == tr.time_step
       IN
         IF time_step >= tr.max_steps \/ training_should_stop(j)
         THEN /\ trainer' = [trainer EXCEPT ![j].episode = episode + 1]
              /\ wpc' = [wpc EXCEPT ![j] = "episode"]
              /\ honoured' = [honoured EXCEPT ![j] =
                                @ \/ time_step < tr.max_steps]
              /\ UNCHANGED <<progress_queue, lastSent>>
         ELSE
           LET capital == tr.capital + reward
               steps == tr.steps + 1
               done == capital <= 0 \/ steps >= tr.max_steps
               tr1 == remember([tr EXCEPT !.capital = capital, !.steps = steps])
               tr2 == handle_replay_and_logging(tr1, episode, time_step)
               due == progress_due(tr2, episode, time_step)
               stats == get_latest_stats(tr2, episode, tr.episodes,
                                         is_training_ready(tr2))
               tr3 == handle_ws_updates(tr2, episode, time_step)
           IN /\ progress_queue' =
                   IF due THEN [progress_queue EXCEPT ![j] = reporter(@, stats)]
                   ELSE progress_queue
              /\ lastSent' = IF due THEN [lastSent EXCEPT ![j] = stats]
                             ELSE lastSent
              /\ UNCHANGED honoured
              /\ IF done
                 THEN /\ trainer' = [trainer EXCEPT ![j] =
                                       [tr3 EXCEPT !.episode = episode + 1]]
                      /\ wpc' = [wpc EXCEPT ![j] = "episode"]
                 ELSE /\ trainer' = [trainer EXCEPT ![j] =
                                       [tr3 EXCEPT !.time_step = time_step + 1]]
                      /\ wpc' = wpc
    /\ UNCHANGED <<workerFrame, exitcode, result_queue, checkpoint, resultsPut>>
    /\ UNCHANGED unitVars

\* train_model / resume_training after the loop and the end of
\* run_training_process: the history bundle, DQNAgent.dump_memory (the length
\* of the pickled deque is kept), the saved checkpoint, the result
WorkerFinish(j) ==
    /\ wpc[j] = "finish"
    /\ checkpoint' = [exists |-> TRUE,
                      history |-> trainer[j].session_stats,
                      total_episodes |-> trainer[j].episodes,
                      max_steps |-> trainer[j].max_steps,
                      memory_len |-> trainer[j].memory_len]
    /\ PutResult(j, [type |-> "result", error |-> ""])
    /\ Exit(j, 0, "exited")
    /\ UNCHANGED <<workerFrame, progress_queue, lastSent, honoured>>
    /\ UNCHANGED unitVars

\* an exception inside the try block: except Exception -> {"error": str(exc)}
WorkerRaise(j, text) ==
    /\ \/ wpc[j] \in {"episode", "step", "finish"}
       \/ wpc[j] = "entry" /\ ~stop_event[j]
    /\ PutResult(j, [type |-> "error", error |-> text])
    /\ Exit(j, 0, "exited")
    /\ UNCHANGED <<workerFrame, progress_queue, checkpoint, lastSent, honoured>>
    /\ UNCHANGED unitVars

\* the process dies without running its except clause (fatal signal, abort)
WorkerCrash(j) ==
    /\ wpc[j] \in {"entry", "episode", "step", "finish"}
    /\ Exit(j, 1, "crashed")
    /\ UNCHANGED <<workerFrame, progress_queue, result_queue, checkpoint,
                   resultsPut, lastSent, honoured>>
    /\ UNCHANGED unitVars

\* the process stops responding inside a call that never returns
WorkerHang(j) ==
    /\ wpc[j] \in {"episode", "step"}
    /\ wpc' = [wpc EXCEPT ![j] = "hung"]
    /\ UNCHANGED <<workerFrame, exitcode, trainer, progress_queue,
                   result_queue, checkpoint, resultsPut, lastSent, honoured>>
    /\ UNCHANGED unitVars

\* -------------------------------------------------------------------- clock
\* now[j] is the reading of time.monotonic() in the thread of job j, counted
\* from the moment the stop event of its worker was set (0 until then): time
\* is only observed by the grace-period test of the monitor
Tick(j) ==
    /\ stop_event[j]
    /\ is_alive(j)
    /\ jpc[j] \in {"loop", "poll"}
    /\ now[j] < StopTimeoutSeconds
    /\ now' = [now EXCEPT ![j] = @ + TickSeconds]
    /\ UNCHANGED <<tsVars, jobs, req, jobVars, chanVars, procVars,
                   checkpoint, ghostVars>>
    /\ UNCHANGED unitVars

\* ------------------------------------------------------------- specification
Handler ==
    \/ \E eps \in 1..MaxEpisodes : StartTraining(eps)
    \/ \E eps \in 1..MaxEpisodes : ResumeTraining(eps)
    \/ StartReset
    \/ ResumeReset
    \/ StopTrainingSignal
    \/ \E j \in Jobs : CancelJobSignal(j)
    \/ CancelJob
    \/ Reply

JobThread(j) ==
    \/ JobStart(j)
    \/ MonitorLoop(j)
    \/ MonitorPoll(j)
    \/ MonitorJoin(j)
    \/ JobFinalUpdate(j)
    \/ JobFinally(j)
    \/ JobReturn(j)

Worker(j) ==
    \/ WorkerEntry(j)
    \/ WorkerEpisode(j)
    \/ \E reward \in Rewards : WorkerStep(j, reward)
    \/ WorkerFinish(j)

Fault(j) ==
    \/ \E text \in ErrorTexts : WorkerRaise(j, text)
    \/ WorkerCrash(j)
    \/ WorkerHang(j)

Next ==
    \/ Handler
    \/ \E j \in Jobs : JobThread(j)
    \/ \E j \in Jobs : Worker(j)
    \/ \E j \in Jobs : Fault(j)
    \/ \E j \in Jobs : Tick(j)

Spec == Init /\ [][Next]_vars

\* ------------------------------------------------- history of long episodes
\* The same program with max_steps_episode drawn from StepChoices, so that an
\* episode has more steps than history buckets. Stop requests and faults are
\* left out, and a worker step waits until the monitor has emptied the
\* progress queue, so every update reaches the caller.
StepChoices == {MaxStepsEpisode, MaxStepsLong}

HistStart == \E m \in StepChoices : start_training(MaxEpisodes, m)

HistWorker(j) ==
    /\ progress_queue[j] = <<>>
    /\ Worker(j)

HistNext ==
    \/ HistStart
    \/ StartReset
    \/ Reply
    \/ \E j \in Jobs : JobThread(j)
    \/ \E j \in Jobs : HistWorker(j)

HistSpec == Init /\ [][HistNext]_vars

\* -------------------------------------------------------- a DQNAgent alone
\* A DQNAgent driven by the step loop of train_with_reinforcement_learning:
\* act, remember, then replay when the agent is ready. A transition is named
\* by the number of its insertion. Rates are counted in units of
\* 1 / EpsilonUnit and the decay factor in units of 1 / DecayUnit; the values
\* drawn below keep every product epsilon * epsilon_decay a whole number of
\* units, as the product of these binary fractions is exact in floating point.
MaxTransitions == 5     \* steps of the loop that are followed
MaxBatchSize == 3       \* largest batch_size of a configuration
UpdateFrequency == 2    \* model_update_frequency of every configuration
ValidationSteps == 2    \* steps of a validation rollout
EpsilonUnit == 64
DecayUnit == 2

EpsilonRates == {EpsilonUnit \div 2, (3 * EpsilonUnit) \div 4}
EpsilonFloors == {EpsilonUnit \div 8, EpsilonUnit \div 2}
DecayFactors == {0, DecayUnit \div 2, DecayUnit}

\* DQNAgent.__init__
NewAgent(memory_size, replay_size, batch_size, rate, floor, decay) ==
    [memory |-> <<>>, memory_size |-> memory_size, replay_size |-> replay_size,
     batch_size |-> batch_size, epsilon |-> rate, epsilon_min |-> floor,
     epsilon_decay |-> decay]

append_refusing(memory, maxlen, item) ==
    IF Len(memory) >= maxlen THEN memory ELSE Append(memory, item)

\* collections.deque(maxlen=memory_size).append: a full deque drops the item
\* at its left end
deque_append(memory, maxlen, item) ==
    IF maxlen = 0 THEN <<>>
    ELSE IF Len(memory) >= maxlen THEN Append(Tail(memory), item)
    ELSE Append(memory, item)

\* DQNAgent.remember
agent_remember(a, transition) ==
    [a EXCEPT !.memory = deque_append(a.memory, a.memory_size, transition)]

agent_ready_when_nonempty(a) == Len(a.memory) > 0

\* DQNAgent.is_training_ready
agent_is_training_ready(a) == Len(a.memory) > a.replay_size

\* DQNAgent.replay: the size of the minibatch handed to random.sample
minibatch_size(a) == Min(a.batch_size, a.replay_size)

\* DQNAgent.replay: the epsilon update at its end
decay_epsilon(a) ==
    IF a.epsilon > a.epsilon_min
    THEN (a.epsilon * a.epsilon_decay) \div DecayUnit
    ELSE a.epsilon

\* The weights of a network are named by the number of the train_on_batch
\* call that produced them: 0 for the weights the online model starts with,
\* NoneVal for the weights a second model gets from its own initialisation.
\* run_training_async builds two models (learner.get_model twice);
\* run_resume_training_async passes the loaded model as model and as
\* target_model, so the target handle is the online object (aliased).
NewNetworks(log, aliased) ==
    [log EXCEPT !.online = 0, !.aliased = aliased,
                !.target = IF aliased THEN 0 ELSE NoneVal]

\* DQNAgent.replay -> model.train_on_batch: the online object gets new
\* weights, and so does whatever handle refers to the same object
train_on_batch(log) ==
    [log EXCEPT !.online = @ + 1,
                !.target = IF log.aliased THEN log.online + 1 ELSE @]

\* train_with_reinforcement_learning: target_model.set_weights(
\* model.get_weights()) when time_step % update_frequency == 0
hard_copy(log, time_step) ==
    IF time_step % UpdateFrequency = 0 THEN [log EXCEPT !.target = log.online]
    ELSE log

\* the values rng.random() returns, in units of 1 / EpsilonUnit: the interval
\* [0, 1) with its lower end
RandomDraws == {0, 1, EpsilonUnit - 1}

\* the states of a rollout: after val_env.reset the state is all PAD, and it
\* is PAD again when the first step ended the episode
PadPatterns == {<<TRUE, FALSE>>, <<TRUE, TRUE>>}

\* DQNAgent.act: a random action on an all-PAD state or when the draw is not
\* above epsilon, the arg-max action otherwise
act(a, all_pad, random_threshold) ==
    IF all_pad \/ random_threshold <= a.epsilon THEN "random" ELSE "greedy"

\* DQNTraining._run_validation: the loop over the steps of the rollout; each
\* pass saves epsilon, sets it to 0, acts and restores it; the transitions go
\* to val_memory and evaluate_batch updates nothing
RECURSIVE run_validation(_, _, _, _)
run_validation(a, pads, draws, actions) ==
    IF pads = <<>> THEN [agent |-> a, actions |-> actions]
    ELSE LET old_eps == a.epsilon
             greedy == [a EXCEPT !.epsilon = 0]
             action == act(greedy, Head(pads), Head(draws))
             restored == [greedy EXCEPT !.epsilon = old_eps]
         IN run_validation(restored, Tail(pads), Tail(draws),
                           Append(actions, [all_pad |-> Head(pads),
                                            action |-> action]))

AgentInit ==
    /\ EngineInit /\ EnvIdle /\ SizerIdle /\ PlayIdle
    /\ \E memory_size \in 1..(MaxMemorySize + 1),
          replay_size \in 1..(ReplayBufferSize + 1),
          batch_size \in 1..MaxBatchSize,
          rate \in EpsilonRates, floor \in EpsilonFloors,
          decay \in DecayFactors, aliased \in BOOLEAN :
         /\ agent = NewAgent(memory_size, replay_size, batch_size,
                             rate, floor, decay)
         /\ agent_log = NewNetworks([NoAgentLog EXCEPT !.epsilon_start = rate],
                                    aliased)

\* one pass of the step loop before the agent is ready: act, remember, and
\* _handle_replay_and_logging returns at once
AgentExplore ==
    /\ agent_log.inserted < MaxTransitions
    /\ LET stored == agent_remember(agent, agent_log.inserted + 1) IN
         /\ ~agent_is_training_ready(stored)
         /\ agent' = stored
         /\ agent_log' = hard_copy([agent_log EXCEPT !.acted = @ + 1,
                                                     !.inserted = @ + 1],
                                   agent_log.acted)
    /\ UNCHANGED <<engineVars, env, sizerVars, playVars>>

\* one pass of the step loop of a ready agent: act, remember, replay
AgentTrain ==
    /\ agent_log.inserted < MaxTransitions
    /\ LET stored == agent_remember(agent, agent_log.inserted + 1) IN
         /\ agent_is_training_ready(stored)
         /\ agent' = [stored EXCEPT !.epsilon = decay_epsilon(stored)]
         /\ agent_log' = hard_copy(
                 train_on_batch([agent_log EXCEPT
                                   !.acted = @ + 1, !.inserted = @ + 1,
                                   !.replays = @ + 1,
                                   !.batch = minibatch_size(stored)]),
                 agent_log.acted)
    /\ UNCHANGED <<engineVars, env, sizerVars, playVars>>

\* _handle_replay_and_logging of a ready agent with a validation environment:
\* _run_validation over ValidationSteps steps
AgentValidate(pads, draws) ==
    /\ agent_is_training_ready(agent)
    /\ LET rollout == run_validation(agent, pads, draws, <<>>) IN
         /\ agent' = rollout.agent
         /\ agent_log' = [agent_log EXCEPT !.rollout = rollout.actions]
    /\ UNCHANGED <<engineVars, env, sizerVars, playVars>>

AgentNext ==
    \/ AgentExplore
    \/ AgentTrain
    \/ \E pads \in PadPatterns :
         \E draws \in [1..ValidationSteps -> RandomDraws] :
            AgentValidate(pads, draws)

AgentSpec == AgentInit /\ [][AgentNext]_vars

\* the step loop alone, run to its end
AgentRunNext == AgentExplore \/ AgentTrain

AgentRunSpec == AgentInit /\ [][AgentRunNext]_vars /\ WF_vars(AgentRunNext)

\* ------------------------------------------------ bets, rewards and scaling
\* A RouletteEnvironment with its BetsAndRewards player. Extractions and
\* actions are drawn freely: NUMBERS outcomes, STATES actions and one action
\* past the table.
MaxBetAmount == 2       \* largest bet_amount of a configuration
MaxCapital == 3         \* largest initial_capital of a configuration
EnvMaxSteps == 1        \* max_steps_episode of the environment taken alone
NUMBERS == 37
STATES == 47

Range(seq) == {seq[i] : i \in DOMAIN seq}

\* RouletteSeriesEncoder.color_map
color_map ==
    [black |-> <<15, 4, 2, 17, 6, 13, 11, 8, 10, 24, 33, 20, 31, 22, 29, 28,
                 35, 26>>,
     red |-> <<32, 19, 21, 25, 34, 27, 36, 30, 23, 5, 16, 1, 14, 9, 18, 7,
               12, 3>>,
     green |-> <<0>>]

red_numbers == Range(color_map.red)
black_numbers == Range(color_map.black)

bet_on_number(bet_amount, action, next_extraction) ==
    IF action = next_extraction THEN 35 * bet_amount ELSE -bet_amount

bet_on_red(bet_amount, next_extraction) ==
    IF next_extraction \in red_numbers THEN bet_amount ELSE -bet_amount

bet_on_black(bet_amount, next_extraction) ==
    IF next_extraction \in black_numbers THEN bet_amount ELSE -bet_amount

bet_on_odd(bet_amount, next_extraction) ==
    IF next_extraction # 0 /\ next_extraction % 2 = 1
    THEN bet_amount ELSE -bet_amount

bet_on_even_with_zero(bet_amount, next_extraction) ==
    IF next_extraction % 2 = 0 THEN bet_amount ELSE -bet_amount

bet_on_even(bet_amount, next_extraction) ==
    IF next_extraction # 0 /\ next_extraction % 2 = 0
    THEN bet_amount ELSE -bet_amount

bet_on_low(bet_amount, next_extraction) ==
    IF 1 <= next_extraction /\ next_extraction <= 18
    THEN bet_amount ELSE -bet_amount

bet_on_high(bet_amount, next_extraction) ==
    IF 19 <= next_extraction /\ next_extraction <= NUMBERS - 1
    THEN bet_amount ELSE -bet_amount

bet_on_first_dozen(bet_amount, next_extraction) ==
    IF 1 <= next_extraction /\ next_extraction <= 12
    THEN 2 * bet_amount ELSE -bet_amount

bet_on_second_dozen(bet_amount, next_extraction) ==
    IF 13 <= next_extraction /\ next_extraction <= 24
    THEN 2 * bet_amount ELSE -bet_amount

bet_on_third_dozen(bet_amount, next_extraction) ==
    IF 25 <= next_extraction /\ next_extraction <= NUMBERS - 1
    THEN 2 * bet_amount ELSE -bet_amount

pass_turn == 0

\* BetsAndRewards.interact_and_get_rewards: the reward and the new capital
interact_and_get_rewards(bet_amount, action, next_extraction, capital) ==
    LET reward ==
          IF 0 <= action /\ action <= 36
            THEN bet_on_number(bet_amount, action, next_extraction)
          ELSE IF action = 37 THEN bet_on_red(bet_amount, next_extraction)
          ELSE IF action = 38 THEN bet_on_black(bet_amount, next_extraction)
          ELSE IF action = 39 THEN pass_turn
          ELSE IF action = 40 THEN bet_on_odd(bet_amount, next_extraction)
          ELSE IF action = 41 THEN bet_on_even(bet_amount, next_extraction)
          ELSE IF action = 42 THEN bet_on_low(bet_amount, next_extraction)
          ELSE IF action = 43 THEN bet_on_high(bet_amount, next_extraction)
          ELSE IF action = 44
            THEN bet_on_first_dozen(bet_amount, next_extraction)
          ELSE IF action = 45
            THEN bet_on_second_dozen(bet_amount, next_extraction)
          ELSE IF action = 46
            THEN bet_on_third_dozen(bet_amount, next_extraction)
          ELSE 0
    IN [reward |-> reward, capital |-> capital + reward]

\* RouletteEnvironment.__init__
NewEnv(bet_amount, initial_capital) ==
    [NoEnv EXCEPT !.bet_amount = bet_amount,
                  !.initial_capital = initial_capital,
                  !.capital = initial_capital]

EnvInit ==
    /\ EngineInit /\ AgentIdle /\ SizerIdle /\ PlayIdle
    /\ \E bet_amount \in 1..MaxBetAmount, initial_capital \in 1..MaxCapital :
         env = NewEnv(bet_amount, initial_capital)

\* the environment's episode is over (RouletteEnvironment.step: done)
env_done == env.capital <= 0 \/ env.steps >= EnvMaxSteps

\* RouletteEnvironment.step -> update_rewards, for the action of the agent and
\* the next extraction of the series
EnvStep(action, next_extraction) ==
    /\ ~env_done
    /\ LET got == interact_and_get_rewards(env.bet_amount, action,
                                           next_extraction, env.capital)
       IN env' = [env EXCEPT !.action = action,
                             !.extraction = next_extraction,
                             !.capital_before = env.capital,
                             !.reward = got.reward,
                             !.capital = got.capital,
                             !.steps = @ + 1]
    /\ UNCHANGED <<engineVars, agentVars, sizerVars, playVars>>

\* RouletteEnvironment.reset at the start of the next episode
EnvReset ==
    /\ env_done
    /\ env' = NewEnv(env.bet_amount, env.initial_capital)
    /\ UNCHANGED <<engineVars, agentVars, sizerVars, playVars>>

EnvNext ==
    \/ \E action \in 0..STATES, next_extraction \in 0..(NUMBERS - 1) :
          EnvStep(action, next_extraction)
    \/ EnvReset

EnvSpec == EnvInit /\ [][EnvNext]_vars

\* RouletteEnvironment.scale_rewards applied to an array of two rewards, as
\* DQNAgent.replay applies it to the rewards of a minibatch. A scaled reward
\* is the exact quotient <<numerator, denominator>> of the float the code
\* computes, with a positive denominator.
negative_scaled_unshifted(bet_amount, reward) ==
    <<(reward - (-bet_amount)) * (0 - (-1)), 0 - (-bet_amount)>>

\* ((rewards - (-bet)) / (0 - (-bet))) * (0 - (-1)) + (-1)
negative_scaled(bet_amount, reward) ==
    <<(reward - (-bet_amount)) * (0 - (-1)) + (-1) * (0 - (-bet_amount)),
      0 - (-bet_amount)>>

\* ((rewards - 0) / (bet * 35)) * (1 - 0) + 0
positive_scaled(bet_amount, reward) ==
    <<(reward - 0) * (1 - 0) + 0 * (bet_amount * 35), bet_amount * 35>>

\* np.where(rewards < 0, negative_scaled, positive_scaled)
scale_rewards(bet_amount, rewards) ==
    [i \in DOMAIN rewards |->
        IF rewards[i] < 0 THEN negative_scaled(bet_amount, rewards[i])
        ELSE positive_scaled(bet_amount, rewards[i])]

\* the first replay of a run: the rewards of its minibatch are scaled
ScaleRewards(rewards) ==
    /\ env.rewards = <<>>
    /\ env' = [env EXCEPT !.rewards = rewards,
                          !.scaled = scale_rewards(env.bet_amount, rewards)]
    /\ UNCHANGED <<engineVars, agentVars, sizerVars, playVars>>

ScaleNext ==
    \E r1, r2 \in (-env.bet_amount)..(35 * env.bet_amount) :
        ScaleRewards(<<r1, r2>>)

ScaleSpec == EnvInit /\ [][ScaleNext]_vars

\* --------------------------------------------------------- a BetSizer alone
\* A BetSizer built from a configuration and driven by its public methods as
\* RoulettePlayer drives it. NoneVal stands for None (bet_max, capital); a
\* capital of 0 stands for every capital that is not positive.
ExampleBet == 4         \* the larger bet_amount of a configuration
BetMaxSmall == 2        \* the configured bet_max, when one is configured
MaxFibIndex == 3        \* largest fib_index that is followed
GameCapital == 2 * ExampleBet   \* initial_capital of every configuration

STRATEGY_KEEP == 0
STRATEGY_MARTINGALE == 1
STRATEGY_REVERSE == 2
STRATEGY_DALEMBERT == 3
STRATEGY_FIBONACCI == 4
STRATEGY_COUNT == 5

Max(a, b) == IF a > b THEN a ELSE b

\* normalize_strategy_id with the default STRATEGY_KEEP
normalize_strategy_id(strategy_id) ==
    IF 0 <= strategy_id /\ strategy_id < STRATEGY_COUNT
    THEN strategy_id ELSE STRATEGY_KEEP

\* BetSizer._resolve_bet_max
resolve_bet_max(base_bet, configured_bet_max, initial_capital) ==
    IF configured_bet_max # NoneVal THEN Max(1, configured_bet_max)
    ELSE LET capital_cap == Max(1, initial_capital)
             conservative_cap == Max(base_bet, base_bet * 128)
         IN Max(1, Min(capital_cap, conservative_cap))

\* BetSizer.__init__
NewSizer(bet_amount, bet_unit, configured_bet_max, initial_capital, enforce) ==
    LET base_bet == Max(1, bet_amount) IN
    [base_bet |-> base_bet,
     unit |-> Max(1, IF bet_unit = NoneVal THEN base_bet ELSE bet_unit),
     bet_enforce_capital |-> enforce,
     bet_max |-> resolve_bet_max(base_bet, configured_bet_max, initial_capital),
     current_bet |-> base_bet, fib_index |-> 0,
     fib_values |-> <<base_bet, base_bet>>, last_outcome |-> "neutral"]

\* BetSizer._clamp_bet
clamp_bet(sz, bet_amount, capital) ==
    LET resolved == Min(Max(1, bet_amount), sz.bet_max)
        capped == IF sz.bet_enforce_capital /\ capital # NoneVal
                  THEN Min(resolved, Max(1, capital))
                  ELSE resolved
    IN Max(1, capped)

\* BetSizer._ensure_fib_index; fib_values[i + 1] is the list item of index i
RECURSIVE ensure_fib_index(_, _)
ensure_fib_index(fib_values, target_index) ==
    IF target_index >= Len(fib_values)
    THEN ensure_fib_index(
           Append(fib_values,
                  fib_values[Len(fib_values)] + fib_values[Len(fib_values) - 1]),
           target_index)
    ELSE fib_values

martingale_doubling_on_win(sz) ==
    IF sz.last_outcome = "win" THEN sz.current_bet * 2 ELSE sz.base_bet

\* BetSizer._resolve_next_bet: STRATEGY_MARTINGALE
martingale_next(sz) ==
    IF sz.last_outcome = "loss" THEN sz.current_bet * 2 ELSE sz.base_bet

\* BetSizer._resolve_next_bet: STRATEGY_REVERSE
reverse_next(sz) ==
    IF sz.last_outcome = "win" THEN sz.current_bet * 2 ELSE sz.base_bet

\* BetSizer._resolve_next_bet: STRATEGY_DALEMBERT
dalembert_next(sz) ==
    IF sz.last_outcome = "loss" THEN sz.current_bet + sz.unit
    ELSE IF sz.current_bet > sz.base_bet THEN sz.current_bet - sz.unit
    ELSE sz.base_bet

fibonacci_index_back_by_one(sz) ==
    IF sz.last_outcome = "loss" THEN sz.fib_index + 1
    ELSE Max(0, sz.fib_index - 1)

\* BetSizer._resolve_next_bet: STRATEGY_FIBONACCI, the new fib_index
fibonacci_index(sz) ==
    IF sz.last_outcome = "loss" THEN sz.fib_index + 1
    ELSE Max(0, sz.fib_index - 2)

keeps_bet_only_for_keep(sz, strategy_id) ==
    strategy_id = STRATEGY_KEEP

\* BetSizer._resolve_next_bet: the two early returns of current_bet
keeps_bet(sz, strategy_id) ==
    strategy_id = STRATEGY_KEEP \/ sz.last_outcome = "neutral"

\* BetSizer._resolve_next_bet: the bet, and the sizer with the Fibonacci
\* fields as the call leaves them
resolve_next_bet(sz, strategy_id) ==
    IF keeps_bet(sz, strategy_id)
      THEN [bet |-> sz.current_bet, sizer |-> sz]
    ELSE IF strategy_id = STRATEGY_MARTINGALE
      THEN [bet |-> martingale_next(sz), sizer |-> sz]
    ELSE IF strategy_id = STRATEGY_REVERSE
      THEN [bet |-> reverse_next(sz), sizer |-> sz]
    ELSE IF strategy_id = STRATEGY_DALEMBERT
      THEN [bet |-> dalembert_next(sz), sizer |-> sz]
    ELSE IF strategy_id = STRATEGY_FIBONACCI
      THEN LET index == fibonacci_index(sz)
               values == ensure_fib_index(sz.fib_values, index)
           IN [bet |-> values[index + 1],
               sizer |-> [sz EXCEPT !.fib_index = index, !.fib_values = values]]
    ELSE [bet |-> sz.current_bet, sizer |-> sz]

BetAmounts == {1, ExampleBet}
BetUnits == {NoneVal}
BetMaxes == {NoneVal, BetMaxSmall}
Capitals == {NoneVal, 0, ExampleBet + BetMaxSmall}
StrategyIds == 0..STRATEGY_COUNT

SizerInit ==
    /\ EngineInit /\ AgentIdle /\ EnvIdle /\ PlayIdle
    /\ \E bet_amount \in BetAmounts, bet_unit \in BetUnits,
          bet_max \in BetMaxes, enforce \in BOOLEAN :
         sizer = NewSizer(bet_amount, bet_unit, bet_max, GameCapital, enforce)
    /\ sizer_log = NoSizerLog

sizerFrame == <<engineVars, agentVars, env, playVars>>

\* BetSizer.set_last_outcome_from_reward
SetLastOutcome(reward) ==
    /\ sizer' = [sizer EXCEPT !.last_outcome =
                    IF reward > 0 THEN "win"
                    ELSE IF reward < 0 THEN "loss" ELSE "neutral"]
    /\ sizer_log' = [NoSizerLog EXCEPT !.call = "set_last_outcome_from_reward"]
    /\ UNCHANGED sizerFrame

\* BetSizer.set_base_bet
SetBaseBet(bet_amount, capital) ==
    /\ LET resolved_base == Max(1, bet_amount)
           sz == [sizer EXCEPT !.base_bet = resolved_base,
                               !.unit = Max(1, sizer.unit),
                               !.fib_values = <<resolved_base, resolved_base>>,
                               !.fib_index = 0]
           bet == clamp_bet(sz, resolved_base, capital)
       IN /\ sizer' = [sz EXCEPT !.current_bet = bet]
          /\ sizer_log' = [call |-> "set_base_bet", strategy |-> NoneVal,
                           capital |-> capital,
                           previous_bet |-> sizer.current_bet,
                           unclamped |-> resolved_base, returned |-> bet]
    /\ UNCHANGED sizerFrame

\* BetSizer.set_current_bet
SetCurrentBet(bet_amount, capital) ==
    /\ LET bet == clamp_bet(sizer, bet_amount, capital)
       IN /\ sizer' = [sizer EXCEPT !.current_bet = bet]
          /\ sizer_log' = [call |-> "set_current_bet", strategy |-> NoneVal,
                           capital |-> capital,
                           previous_bet |-> sizer.current_bet,
                           unclamped |-> bet_amount, returned |-> bet]
    /\ UNCHANGED sizerFrame

preview_keeping_index(sz, strategy_id, capital) ==
    LET next == resolve_next_bet(sz, normalize_strategy_id(strategy_id))
    IN [returned |-> clamp_bet(sz, next.bet, capital), unclamped |-> next.bet,
        sizer |-> [next.sizer EXCEPT !.current_bet = sz.current_bet]]

\* BetSizer.preview: the value returned, the value handed to _clamp_bet and
\* the sizer as the call leaves it; current_bet and fib_index are put back,
\* fib_values is not
preview(sz, strategy_id, capital) ==
    LET next == resolve_next_bet(sz, normalize_strategy_id(strategy_id))
    IN [returned |-> clamp_bet(sz, next.bet, capital), unclamped |-> next.bet,
        sizer |-> [next.sizer EXCEPT !.current_bet = sz.current_bet,
                                     !.fib_index = sz.fib_index]]

\* BetSizer.apply: the same three values
apply(sz, strategy_id, capital) ==
    LET next == resolve_next_bet(sz, normalize_strategy_id(strategy_id))
        bet == clamp_bet(next.sizer, next.bet, capital)
    IN [returned |-> bet, unclamped |-> next.bet,
        sizer |-> [next.sizer EXCEPT !.current_bet = bet]]

\* a call of preview
Preview(strategy_id, capital) ==
    /\ LET call == preview(sizer, strategy_id, capital)
       IN /\ Len(call.sizer.fib_values) <= MaxFibIndex + 1
          /\ sizer' = call.sizer
          /\ sizer_log' = [call |-> "preview", strategy |-> strategy_id,
                           capital |-> capital,
                           previous_bet |-> sizer.current_bet,
                           unclamped |-> call.unclamped,
                           returned |-> call.returned]
    /\ UNCHANGED sizerFrame

\* a call of apply
Apply(strategy_id, capital) ==
    /\ LET call == apply(sizer, strategy_id, capital)
       IN /\ call.sizer.fib_index <= MaxFibIndex
          /\ sizer' = call.sizer
          /\ sizer_log' = [call |-> "apply", strategy |-> strategy_id,
                           capital |-> capital,
                           previous_bet |-> sizer.current_bet,
                           unclamped |-> call.unclamped,
                           returned |-> call.returned]
    /\ UNCHANGED sizerFrame

SizerNext ==
    \/ \E reward \in {-1, 0, 1} : SetLastOutcome(reward)
    \/ \E bet_amount \in BetAmounts, capital \in Capitals :
          SetBaseBet(bet_amount, capital)
    \/ \E bet_amount \in BetAmounts, capital \in Capitals :
          SetCurrentBet(bet_amount, capital)
    \/ \E strategy_id \in StrategyIds, capital \in Capitals :
          Preview(strategy_id, capital)
    \/ \E strategy_id \in StrategyIds, capital \in Capitals :
          Apply(strategy_id, capital)

SizerSpec == SizerInit /\ [][SizerNext]_vars

\* ------------------------------------------------------ a StrategyHold alone
\* A StrategyHold built from hold_steps and a fallback strategy and driven by
\* resolve and reset. An id of STRATEGY_COUNT stands for every integer that
\* is not a strategy id.
MaxHoldSteps == 3       \* largest hold_steps of a configuration

normalize_passing_invalid(strategy_id, default) ==
    IF strategy_id = NoneVal THEN default ELSE strategy_id

\* normalize_strategy_id with a default
normalize_with_default(strategy_id, default) ==
    IF strategy_id = NoneVal THEN default
    ELSE IF 0 <= strategy_id /\ strategy_id < STRATEGY_COUNT THEN strategy_id
    ELSE default

\* StrategyHold.__init__
NewHold(hold_steps, fallback_strategy_id) ==
    [hold_steps |-> Max(1, hold_steps),
     fallback_strategy_id |->
         normalize_with_default(fallback_strategy_id, STRATEGY_KEEP),
     current_strategy_id |-> NoneVal, hold_remaining |-> 0]

\* StrategyHold.reset
hold_reset(h, strategy_id) ==
    [h EXCEPT !.current_strategy_id =
                  IF strategy_id # NoneVal
                  THEN normalize_with_default(strategy_id, h.fallback_strategy_id)
                  ELSE NoneVal,
              !.hold_remaining = 0]

\* StrategyHold.resolve takes its first branch
hold_is_holding(h) == h.current_strategy_id # NoneVal /\ h.hold_remaining > 0

hold_resolve_full_steps(h, selected_strategy_id) ==
    IF hold_is_holding(h)
    THEN [returned |-> h.current_strategy_id,
          hold |-> [h EXCEPT !.hold_remaining = h.hold_remaining - 1]]
    ELSE LET next_strategy ==
                 normalize_with_default(selected_strategy_id,
                                        h.fallback_strategy_id)
         IN [returned |-> next_strategy,
             hold |-> [h EXCEPT !.current_strategy_id = next_strategy,
                                !.hold_remaining = h.hold_steps]]

\* StrategyHold.resolve: the value returned and the hold as the call leaves it
hold_resolve(h, selected_strategy_id) ==
    IF hold_is_holding(h)
    THEN [returned |-> h.current_strategy_id,
          hold |-> [h EXCEPT !.hold_remaining = h.hold_remaining - 1]]
    ELSE LET next_strategy ==
                 normalize_with_default(selected_strategy_id,
                                        h.fallback_strategy_id)
         IN [returned |-> next_strategy,
             hold |-> [h EXCEPT !.current_strategy_id = next_strategy,
                                !.hold_remaining = Max(0, h.hold_steps - 1)]]

Selections == {NoneVal} \cup (0..STRATEGY_COUNT)

HoldInit ==
    /\ EngineInit /\ AgentIdle /\ EnvIdle /\ SizerIdle
    /\ session = NoSession
    /\ \E hold_steps \in 0..MaxHoldSteps, fallback \in Selections :
         /\ hold = NewHold(hold_steps, fallback)
         /\ hold_log = [NoHoldLog EXCEPT !.configured_steps = hold_steps]

holdFrame == <<engineVars, agentVars, env, sizerVars, session>>

\* a call of resolve; run counts the calls that returned the strategy in hold,
\* the accepting call included
HoldResolve(selected_strategy_id) ==
    /\ LET call == hold_resolve(hold, selected_strategy_id)
       IN /\ hold' = call.hold
          /\ hold_log' = [hold_log EXCEPT
                 !.call = "resolve",
                 !.selected = selected_strategy_id,
                 !.returned = call.returned,
                 !.accepted = ~hold_is_holding(hold),
                 !.run = IF hold_is_holding(hold) THEN hold_log.run + 1 ELSE 1]
    /\ UNCHANGED holdFrame

\* a call of reset
HoldReset(strategy_id) ==
    /\ hold' = hold_reset(hold, strategy_id)
    /\ hold_log' = [hold_log EXCEPT !.call = "reset",
                                    !.selected = strategy_id,
                                    !.returned = NoneVal,
                                    !.accepted = FALSE, !.run = 0]
    /\ UNCHANGED holdFrame

HoldNext ==
    \/ \E selected \in Selections : HoldResolve(selected)
    \/ \E strategy_id \in Selections : HoldReset(strategy_id)

HoldSpec == HoldInit /\ [][HoldNext]_vars

\* ------------------------------------------------------- a live-play session
\* One InferenceSession with its RoulettePlayer, BetSizer and StrategyHold,
\* driven by the requests of the inference routes. The model's answer to a
\* prediction is an input; last_seen and the persisted rows are left out.
PerceptiveSize == 2     \* perceptive_field_size of the checkpoint
MaxPlaySteps == 2       \* largest step_count that is followed
NonInteger == 98        \* stands for every value that is not an integer

HTTP_200_OK == 200
HTTP_400_BAD_REQUEST == 400
HTTP_404_NOT_FOUND == 404
HTTP_409_CONFLICT == 409

PlayActions == {1, 37, 39}
PlayExtractions == {0, 1}
StepInputs == PlayExtractions \cup {NUMBERS, NonInteger}
Contexts == {<<1>>, <<0, 1>>, <<1, 0, 1>>}

extraction_up_to_numbers(real_number) ==
    real_number # NonInteger /\ 0 <= real_number /\ real_number <= NUMBERS

\* RoulettePlayer.update_with_true_extraction: the two checks that raise
valid_extraction(real_number) ==
    real_number # NonInteger /\ 0 <= real_number /\ real_number <= 36

\* BetSizer.set_last_outcome_from_reward
outcome_of_reward(reward) ==
    IF reward > 0 THEN "win" ELSE IF reward < 0 THEN "loss" ELSE "neutral"

\* RoulettePlayer.__init__ and InferenceSession.__init__; the state window
\* is filled by initialize_states at the first prediction
NewSession(game_capital, game_bet, dynamic, auto_apply, context) ==
    [NoSession EXCEPT !.open = TRUE, !.initial_capital = game_capital,
                      !.current_bet = game_bet, !.capital = game_capital,
                      !.bet_amount = game_bet,
                      !.window = SubSeq(context, Len(context) - PerceptiveSize + 1,
                                        Len(context)),
                      !.dynamic = dynamic, !.auto_apply = auto_apply,
                      !.fixed_strategy_id = STRATEGY_MARTINGALE]

\* RoulettePlayer.predict_next for the action the model answers
predict_next(s, sz, h, action) ==
    IF s.dynamic
    THEN LET resolved == hold_resolve(h, s.fixed_strategy_id)
             applied == apply(sz, resolved.returned, s.capital)
         IN [session |-> [s EXCEPT !.last_action = action,
                                   !.bet_amount = IF s.auto_apply
                                                  THEN applied.returned ELSE @],
             sizer |-> applied.sizer, hold |-> resolved.hold]
    ELSE [session |-> [s EXCEPT !.last_action = action],
          sizer |-> sz, hold |-> h]

\* RoulettePlayer.update_with_true_extraction
update_with_true_extraction(s, sz, real_number) ==
    IF real_number = NonInteger
      THEN [raised |-> TRUE, detail |-> "Real extraction must be an integer",
            session |-> s, sizer |-> sz]
    ELSE IF ~valid_extraction(real_number)
      THEN [raised |-> TRUE,
            detail |-> "Real extraction must be in between 0 and 36",
            session |-> s, sizer |-> sz]
    ELSE LET got == interact_and_get_rewards(s.bet_amount, s.last_action,
                                             real_number, s.capital)
         IN [raised |-> FALSE, detail |-> "",
             session |-> [s EXCEPT !.window = Append(Tail(@), real_number),
                                   !.capital = got.capital],
             sizer |-> IF s.dynamic
                       THEN [sz EXCEPT !.last_outcome =
                                           outcome_of_reward(got.reward)]
                       ELSE sz]

session_step_without_pending_test(s, sz, extraction) ==
    LET updated == update_with_true_extraction(s, sz, extraction)
    IN IF updated.raised THEN updated
       ELSE [updated EXCEPT !.session.step_count = @ + 1,
                            !.session.prediction_pending = FALSE]

\* InferenceSession.step
session_step(s, sz, extraction) ==
    IF ~s.has_prediction \/ ~s.prediction_pending
      THEN [raised |-> TRUE, detail |-> "No prediction available for this step.",
            session |-> s, sizer |-> sz]
    ELSE LET updated == update_with_true_extraction(s, sz, extraction)
         IN IF updated.raised THEN updated
            ELSE [updated EXCEPT !.session.step_count = @ + 1,
                                 !.session.prediction_pending = FALSE]

Answer(call, status, detail, extraction) ==
    [call |-> call, status |-> status, detail |-> detail,
     extraction |-> extraction]

playFrame == <<engineVars, agentVars, env, sizer_log, hold_log>>

\* InferenceEndpoint.start_session; found is FALSE for a checkpoint or a
\* dataset that does not exist
StartSession(found, game_capital, game_bet, dynamic, auto_apply, context, action) ==
    /\ ~session.open
    /\ IF ~found
         THEN /\ session' = [NoSession EXCEPT !.response =
                    Answer("start", HTTP_404_NOT_FOUND, "not found", NoneVal)]
              /\ UNCHANGED <<sizer, hold>>
       ELSE IF Len(context) < PerceptiveSize
         THEN /\ session' = [NoSession EXCEPT !.response =
                    Answer("start", HTTP_400_BAD_REQUEST,
                           "Inference context must contain at least the perceptive field size.",
                           NoneVal)]
              /\ UNCHANGED <<sizer, hold>>
       ELSE LET predicted ==
                  predict_next(
                      NewSession(game_capital, game_bet, dynamic, auto_apply,
                                 context),
                      NewSizer(game_bet, NoneVal, NoneVal, game_capital, TRUE),
                      NewHold(MaxHoldSteps, STRATEGY_MARTINGALE),
                      action)
            IN /\ session' = [predicted.session EXCEPT
                       !.has_prediction = TRUE,
                       !.prediction_pending = TRUE,
                       !.prediction_step = 1,
                       !.response = Answer("start", HTTP_200_OK, "", NoneVal)]
               /\ sizer' = predicted.sizer
               /\ hold' = predicted.hold
    /\ UNCHANGED playFrame

\* InferenceEndpoint.next_prediction with InferenceSession.predict
NextPrediction(action) ==
    /\ IF ~session.open
         THEN /\ session' = [session EXCEPT !.response =
                    Answer("next", HTTP_404_NOT_FOUND, "Session not found.",
                           NoneVal)]
              /\ UNCHANGED <<sizer, hold>>
       ELSE IF session.prediction_pending
         THEN /\ session' = [session EXCEPT !.response =
                    Answer("next", HTTP_409_CONFLICT,
                           "Prediction already pending for this session.",
                           NoneVal)]
              /\ UNCHANGED <<sizer, hold>>
       ELSE LET predicted == predict_next(session, sizer, hold, action)
            IN /\ session' = [predicted.session EXCEPT
                       !.has_prediction = TRUE,
                       !.prediction_pending = TRUE,
                       !.prediction_step = session.step_count + 1,
                       !.response = Answer("next", HTTP_200_OK, "", NoneVal)]
               /\ sizer' = predicted.sizer
               /\ hold' = predicted.hold
    /\ UNCHANGED playFrame

\* InferenceEndpoint.submit_step with InferenceSession.step, for any value
\* handed to step
SubmitStep(extraction) ==
    /\ session.step_count < MaxPlaySteps
    /\ IF ~session.open
         THEN /\ session' = [session EXCEPT !.response =
                    Answer("step", HTTP_404_NOT_FOUND, "Session not found.",
                           extraction)]
              /\ UNCHANGED sizer
       ELSE LET stepped == session_step(session, sizer, extraction)
            IN /\ session' = [stepped.session EXCEPT !.response =
                       Answer("step",
                              IF stepped.raised THEN HTTP_400_BAD_REQUEST
                              ELSE HTTP_200_OK,
                              stepped.detail, extraction)]
               /\ sizer' = stepped.sizer
    /\ UNCHANGED <<hold, playFrame>>

\* InferenceEndpoint.update_bet_amount with InferenceSession.update_bet and
\* RoulettePlayer.update_bet_amount
UpdateBetAmount(bet_amount) ==
    /\ IF ~session.open
         THEN /\ session' = [session EXCEPT !.response =
                    Answer("bet", HTTP_404_NOT_FOUND, "Session not found.",
                           NoneVal)]
              /\ UNCHANGED sizer
       ELSE /\ session' = [session EXCEPT
                    !.current_bet = bet_amount, !.bet_amount = bet_amount,
                    !.response = Answer("bet", HTTP_200_OK, "", NoneVal)]
            /\ sizer' =
                 IF session.dynamic
                 THEN LET resolved_base == Max(1, bet_amount)
                          sz == [sizer EXCEPT
                                   !.base_bet = resolved_base,
                                   !.unit = Max(1, sizer.unit),
                                   !.fib_values = <<resolved_base, resolved_base>>,
                                   !.fib_index = 0]
                      IN [sz EXCEPT
                            !.current_bet = clamp_bet(sz, resolved_base,
                                                      session.capital),
                            !.last_outcome = "neutral"]
                 ELSE sizer
    /\ UNCHANGED <<hold, playFrame>>

\* InferenceEndpoint.shutdown
Shutdown ==
    /\ session' = [NoSession EXCEPT !.response =
                       Answer("shutdown", HTTP_200_OK, "", NoneVal)]
    /\ sizer' = NoSizer
    /\ hold' = NoHold
    /\ UNCHANGED playFrame

PlayNext ==
    \/ \E found \in BOOLEAN, game_capital \in {1, GameCapital},
          game_bet \in BetAmounts, dynamic \in BOOLEAN, auto_apply \in BOOLEAN,
          context \in Contexts, action \in PlayActions :
          StartSession(found, game_capital, game_bet, dynamic, auto_apply,
                       context, action)
    \/ \E action \in PlayActions : NextPrediction(action)
    \/ \E extraction \in StepInputs : SubmitStep(extraction)
    \/ \E bet_amount \in BetAmounts : UpdateBetAmount(bet_amount)
    \/ Shutdown

PlaySpec == Init /\ [][PlayNext]_vars

\* ------------------------------------------- a TrainingState in a long run
\* The TrainingState singleton on its own, late in a session whose episodes
\* each left HISTORY_POINTS_PER_EPISODE points in history_points, receiving
\* the training updates of the next episode through update_stats.
LongEpisodes == 101     \* episodes of the long session
MaxUpdateStep == 4      \* largest time_step of an update of the last episode

\* history_points after n updates of a session with one point per bucket
LongHistory(n) ==
    [i \in 1..n |->
       [epoch |-> (i - 1) \div HISTORY_POINTS_PER_EPISODE + 1,
        time_step |-> (i - 1) % HISTORY_POINTS_PER_EPISODE]]

\* the training updates of the last two episodes
LongUpdates ==
    [epoch : {LongEpisodes - 1, LongEpisodes}, total_epochs : {LongEpisodes},
     time_step : 0..MaxUpdateStep, loss : {"num"},
     status : {"training", "exploration"}]

LongInit ==
    /\ \E n \in {max_history_points - 1, max_history_points} :
         /\ history_points = LongHistory(n)
         /\ latest_stats = [epoch |-> Last(LongHistory(n)).epoch,
                            total_epochs |-> LongEpisodes,
                            time_step |-> Last(LongHistory(n)).time_step,
                            loss |-> "num", status |-> "training"]
    /\ is_training = TRUE
    /\ current_job_id = 1
    /\ ts_worker = NoJob
    /\ jobs = [j \in Jobs |-> [status |-> "none", stop_requested |-> FALSE]]
    /\ req = IdleReq
    /\ jpc = [j \in Jobs |-> "none"]
    /\ stop_requested_at = [j \in Jobs |-> NoneVal]
    /\ payload = [j \in Jobs |-> "none"]
    /\ outcome = [j \in Jobs |-> "none"]
    /\ wpc = [j \in Jobs |-> "none"]
    /\ exitcode = [j \in Jobs |-> NoCode]
    /\ stop_event = [j \in Jobs |-> FALSE]
    /\ progress_queue = [j \in Jobs |-> <<>>]
    /\ result_queue = [j \in Jobs |-> <<>>]
    /\ kwargs = [j \in Jobs |-> NoKwargs]
    /\ trainer = [j \in Jobs |-> NoTrainer]
    /\ checkpoint = NoCheckpoint
    /\ now = [j \in Jobs |-> 0]
    /\ resultsPut = [j \in Jobs |-> 0]
    /\ lastSent = [j \in Jobs |-> NoMsg]
    /\ observed = [j \in Jobs |-> <<0, 0>>]
    /\ honoured = [j \in Jobs |-> FALSE]
    /\ AgentIdle /\ EnvIdle /\ SizerIdle /\ PlayIdle

\* TrainingState.update_stats(message) with a training_update
UpdateStats(msg) ==
    /\ LET result == update_stats(latest_stats, history_points, msg)
       IN /\ latest_stats' = result.stats
          /\ history_points' = result.history
    /\ UNCHANGED <<is_training, current_job_id, ts_worker, jobs, req, jobVars,
                   chanVars, procVars, checkpoint, now, ghostVars>>
    /\ UNCHANGED unitVars

LongNext == \E msg \in LongUpdates : UpdateStats(msg)

LongSpec == LongInit /\ [][LongNext]_vars

TypeOK ==
    /\ is_training \in BOOLEAN
    /\ current_job_id \in Jobs \cup {NoJob}
    /\ ts_worker \in Jobs \cup {NoJob}
    /\ \A j \in Jobs : Len(progress_queue[j]) <= 256
    /\ \A j \in Jobs : Len(result_queue[j]) <= 8

\* ------------------------------------------------------------------- claims
\* the job thread of j writes the terminal training status in this step
WritesFinalStatus(j) == jpc[j] = "final" /\ jpc'[j] = "finally"

\* C1: in monitor_training_process, whenever a stop has been requested for a
\* running job (worker.stop() called and the job cancelled, or the cancel
\* flag alone), the worker is still alive and the grace period of
\* stop_timeout_seconds has elapsed since the request, the pass of the loop
\* that sees this invokes terminate() and leaves the loop
C1_GraceTerminates ==
    [][\A j \in Jobs :
         (/\ jpc[j] = "loop" /\ jpc'[j] # "loop"
          /\ is_alive(j) /\ should_stop(j) /\ stop_event[j]
          /\ now[j] >= StopTimeoutSeconds)
         => (wpc'[j] = "killed" /\ jpc'[j] = "join")]_vars

C4_OneResult ==
    \A j \in Jobs :
        /\ resultsPut[j] <= 1
        /\ wpc[j] = "exited" => resultsPut[j] = 1
        /\ is_alive(j) => resultsPut[j] = 0

\* the worker left its training loop on the stop flag, returned, and its one
\* result is on the channel
C4_Witness ==
    \E j \in Jobs :
        /\ wpc[j] = "exited"
        /\ honoured[j]
        /\ resultsPut[j] = 1
        /\ Len(result_queue[j]) = 1

\* C5: when the worker forwarded an exception as its terminal {error}
\* message, the terminal training status the caller writes is "error"
C5_ErrorEndsInError ==
    [][\A j \in Jobs :
         (WritesFinalStatus(j) /\ payload[j] = "error")
         => latest_stats'.status = "error"]_vars

\* C6: when the worker exited with a non-zero exit code, left no result and
\* no stop was requested for the job, monitor_training_process raises and the
\* terminal training status the caller writes is "error"
C6_MissingResultIsError ==
    [][\A j \in Jobs :
         (/\ WritesFinalStatus(j)
          /\ payload[j] = "none"
          /\ exitcode[j] \notin {0, NoCode}
          /\ ~should_stop(j) /\ ~stop_event[j])
         => (outcome[j] = "raise" /\ latest_stats'.status = "error")]_vars

\* the job of a crashed worker ended in "error"
C6_Witness ==
    \E j \in Jobs :
        /\ jpc[j] = "finally"
        /\ wpc[j] = "crashed"
        /\ payload[j] = "none"
        /\ ~should_stop(j) /\ ~stop_event[j]
        /\ latest_stats.status = "error"

\* C7: when a stop was requested and the worker honoured it (its training
\* loop exited on the stop flag, the process ended on its own and delivered
\* its result), the terminal training status the caller writes is "cancelled"
C7_HonouredStopIsCancelled ==
    [][\A j \in Jobs :
         (/\ WritesFinalStatus(j)
          /\ honoured[j]
          /\ wpc[j] = "exited"
          /\ payload[j] = "result")
         => latest_stats'.status = "cancelled"]_vars

\* C8: once the runner of a job that was never asked to stop and hit no
\* failure has returned and its start request has been answered, the
\* training status is "completed", epoch equals total_epochs, the history is
\* not empty and is_training is false
C8_CompletedRun ==
    \A j \in Jobs :
        (/\ jpc[j] = "return"
         /\ req.pc = "idle"
         /\ wpc[j] = "exited"
         /\ payload[j] = "result"
         /\ ~stop_event[j] /\ ~should_stop(j))
        => (/\ latest_stats.status = "completed"
            /\ latest_stats.epoch = latest_stats.total_epochs
            /\ history_points # <<>>
            /\ ~is_training)

\* C9: the worker process is not alive when monitor_training_process is
\* about to read the result channel
C9_ReadAfterExit ==
    \A j \in Jobs : jpc[j] = "join" => ~is_alive(j)

\* the result channel has been read after a forced termination
C9_Witness ==
    \E j \in Jobs :
        /\ jpc[j] = "final"
        /\ wpc[j] = "killed"
        /\ stop_requested_at[j] # NoneVal

\* C10: the (epoch, time_step) of the training_update snapshots the caller
\* observes during one run never decreases, in lexicographic order
C10_Monotone ==
    [][\A j \in Jobs :
         jpc'[j] # "done" => LexLeq(observed[j], observed'[j])]_vars

\* the number of history points of a sequence that carry episode number e
PointsOfEpoch(points, e) ==
    Cardinality({i \in DOMAIN points : points[i].epoch = e})

StatsOfEpisode(stats, e) ==
    Cardinality({i \in DOMAIN stats : stats[i].episode = e})

\* C11: in every reachable state neither the session_stats of a trainer nor
\* the history_points of the caller hold more than HISTORY_POINTS_PER_EPISODE
\* points with the same episode number
C11_EpisodeCap ==
    /\ \A i \in DOMAIN history_points :
          PointsOfEpoch(history_points, history_points[i].epoch)
            <= HISTORY_POINTS_PER_EPISODE
    /\ \A j \in Jobs : \A i \in DOMAIN trainer[j].session_stats :
          StatsOfEpisode(trainer[j].session_stats,
                         trainer[j].session_stats[i].episode)
            <= HISTORY_POINTS_PER_EPISODE

\* the part of C11 that concerns the orchestrator alone
C11_SessionStatsCap ==
    \A j \in Jobs : \A i \in DOMAIN trainer[j].session_stats :
        StatsOfEpisode(trainer[j].session_stats,
                       trainer[j].session_stats[i].episode)
          <= HISTORY_POINTS_PER_EPISODE

\* the worker of j is about to run a step whose update_session_stats call
\* re-submits the (episode, bucket) of the point stored last
Resubmits(j) ==
    LET tr == trainer[j] IN
    /\ wpc[j] = "step"
    /\ tr.time_step < tr.max_steps
    /\ ~stop_event[j]
    /\ is_training_ready(remember(tr))
    /\ tr.session_stats # <<>>
    /\ tr.last_history_episode = tr.episode
    /\ tr.last_history_bucket = bucket_of(tr.max_steps, tr.time_step)

\* C12: a history point re-submitted for the (episode, bucket) stored last
\* replaces the values of the stored point and leaves the number of stored
\* points unchanged, in update_session_stats (the step of the worker) and in
\* add_history_point (a training_update with the epoch and time step of the
\* last point)
C12_OverwriteInPlace ==
    [][/\ \A j \in Jobs :
            (Resubmits(j) /\ trainer'[j] # trainer[j]) =>
               /\ Len(trainer'[j].session_stats) = Len(trainer[j].session_stats)
               /\ Last(trainer'[j].session_stats).time_step
                     = trainer[j].time_step
       /\ history_points # <<>> =>
            LET again == [epoch |-> Last(history_points).epoch,
                          total_epochs |-> 0,
                          time_step |-> Last(history_points).time_step,
                          loss |-> "num", status |-> "training"]
                after == add_history_point(history_points, again)
            IN /\ Len(after) = Len(history_points)
               /\ Last(after) = [epoch |-> again.epoch,
                                 time_step |-> again.time_step]]_vars

\* C13: the replay buffer never holds more than memory_size transitions, and
\* it holds the transitions inserted last, oldest first: once more than
\* memory_size have been inserted the first one is gone and the others keep
\* the order of their insertion
C13_ReplayBufferFIFO ==
    LET held == Min(agent_log.inserted, agent.memory_size) IN
    /\ Len(agent.memory) <= agent.memory_size
    /\ agent.memory = [i \in 1..held |-> agent_log.inserted - held + i]
    /\ agent_log.inserted > agent.memory_size =>
          \A i \in DOMAIN agent.memory : agent.memory[i] # 1

\* memory_size + 1 transitions have been inserted
C13_Witness ==
    /\ agent.memory_size > 0
    /\ agent_log.inserted = agent.memory_size + 1
    /\ agent.memory[1] = 2

\* C14: an agent whose epsilon starts at or above epsilon_min keeps
\* epsilon >= epsilon_min after any number of replay calls, for every decay
\* factor in [0, 1]
C14_EpsilonFloor ==
    agent_log.epsilon_start >= agent.epsilon_min =>
        agent.epsilon >= agent.epsilon_min

\* C15: replay has run only if the buffer holds more than replay_size
\* transitions, its minibatch is never larger than the buffer, and until the
\* first replay every step has selected an action and stored its transition
\* while epsilon kept its initial value
C15_ReplayOnlyWhenReady ==
    /\ agent_log.replays > 0 => Len(agent.memory) > agent.replay_size
    /\ agent_log.batch <= Len(agent.memory)
    /\ agent_log.acted = agent_log.inserted
    /\ Len(agent.memory) = Min(agent_log.inserted, agent.memory_size)
    /\ agent_log.replays = 0 => agent.epsilon = agent_log.epsilon_start

\* steps taken before the agent is ready, and a replay once it is
C15_Witness ==
    /\ agent.replay_size > 0
    /\ agent_log.replays = 1
    /\ agent_log.inserted = agent.replay_size + 1
    /\ agent_log.batch > 0

\* the numbers that are red on a roulette table: the odd numbers of 1..10 and
\* 19..28 and the even numbers of 11..18 and 29..36
TableRed ==
    {n \in 1..36 : IF (1 <= n /\ n <= 10) \/ (19 <= n /\ n <= 28)
                   THEN n % 2 = 1 ELSE n % 2 = 0}

\* whether an outside bet (actions 37..46 but pass) hits on a number
OutsideHit(action, number) ==
    /\ number # 0
    /\ CASE action = 37 -> number \in TableRed
         [] action = 38 -> number \notin TableRed
         [] action = 40 -> number % 2 = 1
         [] action = 41 -> number % 2 = 0
         [] action = 42 -> number <= 18
         [] action = 43 -> number >= 19
         [] action \in {44, 45, 46} -> (number - 1) \div 12 = action - 44
         [] OTHER -> FALSE

\* the payout table of the claim
PayoutTable(action, number, bet) ==
    IF action <= 36 THEN (IF action = number THEN 35 * bet ELSE -bet)
    ELSE IF action = 39 THEN 0
    ELSE IF ~OutsideHit(action, number) THEN -bet
    ELSE IF action \in {44, 45, 46} THEN 2 * bet
    ELSE bet

\* C16: for every action in 0..46 and outcome in 0..36 the reward of
\* interact_and_get_rewards is the one of the payout table (35 to 1 on the
\* number, 1 to 1 on red, black, odd, even, low and high, 2 to 1 on a dozen,
\* 0 for pass, the bet lost otherwise and on 0 for every outside bet), and
\* the capital returned is the capital passed plus the reward
C16_PayoutTable ==
    (env.action # NoneVal /\ env.action <= 46) =>
        /\ env.reward = PayoutTable(env.action, env.extraction, env.bet_amount)
        /\ env.capital = env.capital_before + env.reward
        /\ (env.extraction = 0 /\ env.action >= 37 /\ env.action # 39)
              => env.reward = -env.bet_amount

\* an outside bet has been lost on the outcome 0
C16_Witness ==
    /\ env.action = 41
    /\ env.extraction = 0
    /\ env.reward = -env.bet_amount
    /\ env.capital = env.capital_before - env.bet_amount

\* order and equality of exact quotients with positive denominators
RatLeq(x, y) == x[1] * y[2] <= y[1] * x[2]

RatIs(x, num, den) == x[1] * den = num * x[2]

\* C17: over the rewards of [-bet, 35 * bet] scale_rewards never decreases,
\* maps -bet to -1, 0 to 0 and 35 * bet to 1, and is reward / bet below 0 and
\* reward / (35 * bet) from 0 on, for every bet amount >= 1
C17_ScaleMonotone ==
    env.rewards # <<>> =>
        LET bet == env.bet_amount
            r == env.rewards
            x == env.scaled
        IN /\ r[1] <= r[2] => RatLeq(x[1], x[2])
           /\ \A i \in DOMAIN r :
                 /\ x[i][2] > 0
                 /\ r[i] = -bet => RatIs(x[i], -1, 1)
                 /\ r[i] = 0 => RatIs(x[i], 0, 1)
                 /\ r[i] = 35 * bet => RatIs(x[i], 1, 1)
                 /\ r[i] < 0 => RatIs(x[i], r[i], bet)
                 /\ r[i] >= 0 => RatIs(x[i], r[i], 35 * bet)

\* the two ends of the interval have been scaled in one call
C17_Witness ==
    /\ env.bet_amount = MaxBetAmount
    /\ env.rewards = <<-env.bet_amount, 35 * env.bet_amount>>
    /\ RatIs(env.scaled[1], -1, 1)
    /\ RatIs(env.scaled[2], 1, 1)

\* C18: in every state of a BetSizer, from its construction on,
\* 1 <= current_bet <= bet_max
C18_BetWithinBounds ==
    sizer # NoSizer =>
        /\ 1 <= sizer.current_bet
        /\ sizer.current_bet <= sizer.bet_max

\* C19: with bet_enforce_capital set, the bet that apply, set_current_bet or
\* set_base_bet stores (and returns) for a capital is never above that capital
C19_BetWithinCapital ==
    (/\ sizer.bet_enforce_capital
     /\ sizer_log.call \in {"apply", "set_current_bet", "set_base_bet"}
     /\ sizer_log.capital # NoneVal) =>
        /\ sizer_log.returned <= sizer_log.capital
        /\ sizer.current_bet <= sizer_log.capital

\* C20: the bet _resolve_next_bet hands to the clamp is twice the current bet
\* after a loss and the base bet after a win under Martingale, and twice the
\* current bet after a win and the base bet after a loss under Reverse
C20_MartingaleAndReverse ==
    sizer_log.call \in {"apply", "preview"} =>
        /\ (sizer_log.strategy = STRATEGY_MARTINGALE
              /\ sizer.last_outcome = "loss")
             => sizer_log.unclamped = 2 * sizer_log.previous_bet
        /\ (sizer_log.strategy = STRATEGY_MARTINGALE
              /\ sizer.last_outcome = "win")
             => sizer_log.unclamped = sizer.base_bet
        /\ (sizer_log.strategy = STRATEGY_REVERSE
              /\ sizer.last_outcome = "win")
             => sizer_log.unclamped = 2 * sizer_log.previous_bet
        /\ (sizer_log.strategy = STRATEGY_REVERSE
              /\ sizer.last_outcome = "loss")
             => sizer_log.unclamped = sizer.base_bet

\* Martingale: a bet of twice the base bet, reached after a loss, goes back to
\* the base bet after a win
C20_Witness ==
    /\ sizer.base_bet = ExampleBet
    /\ sizer_log.call = "apply"
    /\ sizer_log.strategy = STRATEGY_MARTINGALE
    /\ sizer.last_outcome = "win"
    /\ sizer_log.previous_bet = 2 * ExampleBet
    /\ sizer_log.unclamped = ExampleBet
    /\ sizer.current_bet = ExampleBet

\* C21: under D'Alembert the bet handed to the clamp by apply is the current
\* bet plus unit after a loss, and after a win it is the current bet minus
\* unit or the base bet and in either case not below base_bet
C21_DalembertFloor ==
    (sizer_log.call = "apply" /\ sizer_log.strategy = STRATEGY_DALEMBERT) =>
        /\ sizer.last_outcome = "loss"
             => sizer_log.unclamped = sizer_log.previous_bet + sizer.unit
        /\ sizer.last_outcome = "win"
             => /\ sizer_log.unclamped
                     \in {sizer_log.previous_bet - sizer.unit, sizer.base_bet}
                /\ sizer_log.unclamped >= sizer.base_bet

\* fib_values starts with base_bet twice, every later item is the sum of the
\* two before it, and fib_index is an index of the list
FibShape ==
    sizer # NoSizer =>
        /\ sizer.fib_index >= 0
        /\ sizer.fib_index < Len(sizer.fib_values)
        /\ Len(sizer.fib_values) >= 2
        /\ sizer.fib_values[1] = sizer.base_bet
        /\ sizer.fib_values[2] = sizer.base_bet
        /\ \A i \in 3..Len(sizer.fib_values) :
             sizer.fib_values[i] = sizer.fib_values[i - 1] + sizer.fib_values[i - 2]

FibStep ==
    (sizer_log'.call = "apply" /\ sizer_log'.strategy = STRATEGY_FIBONACCI) =>
        /\ sizer.last_outcome = "loss"
             => sizer'.fib_index = sizer.fib_index + 1
        /\ sizer.last_outcome = "win"
             => sizer'.fib_index = Max(0, sizer.fib_index - 2)
        /\ sizer.last_outcome # "neutral"
             => sizer_log'.unclamped = sizer'.fib_values[sizer'.fib_index + 1]

\* C22: fib_values is the Fibonacci sequence of base_bet and fib_index stays
\* inside it in every state; an apply under Fibonacci moves fib_index up by 1
\* after a loss and back by 2, floored at 0, after a win, and hands
\* fib_values[fib_index] to the clamp
C22_FibonacciSequence == []FibShape /\ [][FibStep]_vars

\* three losses have taken the index to 3 (values base, 2 * base, 3 * base)
\* and the win that follows takes it back to 1, the base bet
C22_Witness ==
    /\ sizer.base_bet = ExampleBet
    /\ sizer_log.call = "apply"
    /\ sizer_log.strategy = STRATEGY_FIBONACCI
    /\ sizer.last_outcome = "win"
    /\ sizer.fib_values = <<ExampleBet, ExampleBet, 2 * ExampleBet, 3 * ExampleBet>>
    /\ sizer.fib_index = 1
    /\ sizer_log.unclamped = ExampleBet

KeepStep ==
    (/\ sizer_log'.call \in {"apply", "preview"}
     /\ \/ normalize_strategy_id(sizer_log'.strategy) = STRATEGY_KEEP
        \/ sizer.last_outcome = "neutral") =>
        /\ sizer_log'.unclamped = sizer.current_bet
        /\ sizer'.fib_index = sizer.fib_index

\* C23: when the strategy is Keep (or an id that is not a strategy) or the
\* last outcome is neutral, apply and preview hand current_bet itself to the
\* clamp and leave fib_index as it was, whatever the strategy id
C23_KeepAndNeutral == [][KeepStep]_vars

\* a Martingale sequence standing at twice the base bet is not progressed by
\* a neutral outcome
C23_Witness ==
    /\ sizer_log.call = "apply"
    /\ sizer_log.strategy = STRATEGY_MARTINGALE
    /\ sizer.last_outcome = "neutral"
    /\ sizer.base_bet = ExampleBet
    /\ sizer_log.previous_bet = 2 * ExampleBet
    /\ sizer_log.unclamped = 2 * ExampleBet

PreviewStep ==
    sizer_log'.call = "preview" =>
        /\ sizer_log'.returned =
             apply(sizer, sizer_log'.strategy, sizer_log'.capital).returned
        /\ sizer'.current_bet = sizer.current_bet
        /\ sizer'.fib_index = sizer.fib_index
        /\ sizer'.last_outcome = sizer.last_outcome
        /\ sizer'.base_bet = sizer.base_bet

\* C24: preview returns what apply would return from the same state for the
\* same strategy and capital, and leaves current_bet, fib_index, last_outcome
\* and base_bet as they were
C24_PreviewIsPure == [][PreviewStep]_vars

\* a preview under Fibonacci after a loss that returns another bet than the
\* current one and has extended fib_values, with fib_index still at 1
C24_Witness ==
    /\ sizer_log.call = "preview"
    /\ sizer_log.strategy = STRATEGY_FIBONACCI
    /\ sizer.last_outcome = "loss"
    /\ sizer_log.returned # sizer.current_bet
    /\ sizer.fib_index = 1
    /\ Len(sizer.fib_values) = 3

HoldStep ==
    hold_log'.call = "resolve" =>
        /\ ~hold_log'.accepted
             => /\ hold_log'.returned = hold_log.returned
                /\ hold_log'.run <= hold.hold_steps
        /\ (hold_log'.accepted /\ hold_log.call = "resolve")
             => hold_log.run = hold.hold_steps

\* C25: hold_remaining stays within 0..hold_steps - 1; a resolve call that
\* does not accept returns what the call before it returned and is at most
\* the hold_steps-th return of that strategy; a resolve call that accepts
\* right after another resolve call comes after exactly hold_steps returns of
\* the strategy in hold
C25_HoldForHoldSteps ==
    /\ [](0 <= hold.hold_remaining /\ hold.hold_remaining <= Max(0, hold.hold_steps - 1))
    /\ [][HoldStep]_vars

\* hold_steps 3: the third return of strategy 2, with another selection passed
C25_Witness ==
    /\ hold.hold_steps = MaxHoldSteps
    /\ hold_log.call = "resolve"
    /\ ~hold_log.accepted
    /\ hold_log.run = MaxHoldSteps
    /\ hold_log.returned = STRATEGY_REVERSE
    /\ hold_log.selected = STRATEGY_FIBONACCI
    /\ hold.hold_remaining = 0

HoldValid ==
    /\ hold # NoHold =>
         /\ hold.hold_steps >= 1
         /\ hold_log.configured_steps < 1 => hold.hold_steps = 1
         /\ hold_log.configured_steps >= 1
              => hold.hold_steps = hold_log.configured_steps
         /\ hold.fallback_strategy_id \in 0..(STRATEGY_COUNT - 1)
    /\ hold_log.call = "resolve" =>
         /\ hold_log.returned \in 0..(STRATEGY_COUNT - 1)
         /\ (hold_log.accepted /\ hold_log.selected \in 0..(STRATEGY_COUNT - 1))
              => hold_log.returned = hold_log.selected
         /\ (hold_log.accepted /\ hold_log.selected \notin 0..(STRATEGY_COUNT - 1))
              => hold_log.returned = hold.fallback_strategy_id

AcceptAfterReset ==
    (hold_log.call = "reset" /\ hold_log'.call = "resolve")
        => hold_log'.accepted

\* C26: every value resolve returns is a strategy id 0..4; an accepting call
\* adopts a valid selection and otherwise the fallback; hold_steps below 1
\* is 1; the resolve call that follows a reset accepts
C26_ResolveIsValid == []HoldValid /\ [][AcceptAfterReset]_vars

\* a hold built with hold_steps 0 adopts its fallback for a selection that is
\* not a strategy id
C26_Witness ==
    /\ hold_log.configured_steps = 0
    /\ hold_log.call = "resolve"
    /\ hold_log.accepted
    /\ hold_log.selected = STRATEGY_COUNT
    /\ hold.fallback_strategy_id = STRATEGY_DALEMBERT
    /\ hold_log.returned = STRATEGY_DALEMBERT

RejectedStep ==
    (/\ session'.response.call = "step"
     /\ session.open
     /\ session'.response.extraction \notin 0..(NUMBERS - 1)) =>
        /\ session'.response.status = HTTP_400_BAD_REQUEST
        /\ session'.capital = session.capital
        /\ session'.window = session.window
        /\ session'.step_count = session.step_count
        /\ session'.prediction_pending = session.prediction_pending
        /\ session'.has_prediction = session.has_prediction
        /\ session'.last_action = session.last_action
        /\ sizer' = sizer

\* C27: a step of an open session with a value that is not an integer or is
\* outside 0..36 is answered with an error and leaves capital, state window,
\* the bet sizer (its last outcome included), step_count and the pending
\* prediction as they were
C27_InvalidExtractionRejected == [][RejectedStep]_vars

\* the value 37 reaches update_with_true_extraction with a prediction
\* pending after one step played, and is refused there
C27_Witness ==
    /\ session.open
    /\ session.response.call = "step"
    /\ session.response.extraction = NUMBERS
    /\ session.response.status = HTTP_400_BAD_REQUEST
    /\ session.response.detail = "Real extraction must be in between 0 and 36"
    /\ session.prediction_pending
    /\ session.step_count = 1
    /\ session.dynamic
    /\ sizer.last_outcome = "loss"

NextAfterStart ==
    (/\ session.response.call = "start"
     /\ session.response.status = HTTP_200_OK
     /\ session'.response.call = "next")
        => session'.response.status = HTTP_200_OK

\* C28: a next-prediction request issued right after a start_session that
\* succeeded, before any step, succeeds
C28_NextRightAfterStart == [][NextAfterStart]_vars

\* no job but the first has been started: every write so far is of run 1
OnlyFirstRun == \A k \in Jobs \ {1} : jobs[k].status = "none"

StatusStep ==
    OnlyFirstRun' =>
        /\ ~(latest_stats.status = "training"
               /\ latest_stats'.status = "exploration")
        /\ latest_stats.status \in TerminalStatuses
             => latest_stats'.status = latest_stats.status

\* C29: while the first training run is the only one started, the reported
\* status never goes from "training" to "exploration", and a terminal status,
\* once written, is not replaced
C29_StatusOrder == [][StatusStep]_vars

\* the same order holds at every step other than the reset of the start or
\* resume request that is still in flight
StatusOrderOutsideReset == [][req.pc # "reset" => StatusStep]_vars

StoppedStep(j) ==
    (/\ stop_event[j]
     /\ wpc[j] \in {"episode", "step"}
     /\ wpc'[j] \in {"episode", "step", "finish"}) =>
        /\ trainer'[j].steps = trainer[j].steps
        /\ trainer'[j].time_step = trainer[j].time_step
        /\ trainer'[j].capital = trainer[j].capital
        /\ trainer'[j].memory_len = trainer[j].memory_len
        /\ trainer'[j].session_stats = trainer[j].session_stats
        /\ lastSent'[j] = lastSent[j]
        /\ wpc[j] = "episode" => wpc'[j] # "step"
        /\ (wpc[j] = "step" /\ wpc'[j] # "step") => wpc'[j] = "episode"

\* C30: once the stop event of a worker is set, its training loop takes no
\* further environment step, stores and replays nothing, reports nothing,
\* leaves the step loop at its next pass and starts no further episode
C30_NoStepAfterStop == [][\A j \in Jobs : StoppedStep(j)]_vars

\* a worker that has left both loops on a stop with one step of its episode
\* taken and the others left undone
C30_Witness ==
    \E j \in Jobs :
        /\ stop_event[j]
        /\ wpc[j] = "finish"
        /\ honoured[j]
        /\ trainer[j].steps = 1
        /\ trainer[j].max_steps = MaxStepsEpisode
        /\ trainer[j].episode <= trainer[j].episodes

\* the worker of job j passes from its entry to the training loop of a
\* resume: load_checkpoint, DQNTraining.__init__, DQNAgent.__init__
ResumeEntry(j) ==
    /\ wpc[j] = "entry"
    /\ wpc'[j] = "episode"
    /\ kwargs[j].kind = "resume"

\* C31: on resume, when the checkpoint holds a serialized replay memory, the
\* replay buffer of the resumed run starts with the transitions of that
\* memory (as many as were pickled) instead of starting empty
C31_ResumeReseedsMemory ==
    [][\A j \in Jobs :
         ResumeEntry(j) /\ checkpoint.exists
           => trainer'[j].memory_len = checkpoint.memory_len]_vars

\* the worker of job j returns from train_model / resume_training and saves
\* the history bundle
SavesBundle(j) ==
    /\ wpc[j] = "finish"
    /\ wpc'[j] = "exited"
    /\ Last(result_queue'[j]).type = "result"

\* C32: the total_episodes of the bundle saved at training end is the number
\* of episodes the loop has entered (the episodes of the checkpoint a resume
\* started from included), also when the run was cancelled early
C32_TotalEpisodesRun ==
    [][\A j \in Jobs :
         SavesBundle(j) => checkpoint'.total_episodes = trainer[j].episode]_vars

\* C32 restricted to runs that no stop request interrupted
TotalEpisodesOfFullRun ==
    [][\A j \in Jobs :
         SavesBundle(j) /\ ~honoured[j]
           => checkpoint'.total_episodes = trainer[j].episode]_vars

\* the history h2 keeps every point of h1 in place, except that the point at
\* the end of h1 may have been overwritten
GrowsByAppending(h1, h2) ==
    /\ Len(h2) >= Len(h1)
    /\ \A i \in 1..(Len(h1) - 1) : h2[i] = h1[i]

\* C33: within a run the points stored in history_points are never removed
\* or moved: an update leaves every stored point in its place, apart from an
\* overwrite of the latest one, and may append one point
C33_HistoryOnlyGrows ==
    [][GrowsByAppending(history_points, history_points')]_vars

\* C33 on the worker side: session_stats of a trainer only grows by
\* appending, from the history restored at a resume onwards
SessionStatsOnlyGrow ==
    [][\A j \in Jobs :
         wpc[j] \in {"episode", "step"} /\ wpc'[j] \in {"episode", "step", "finish"}
           => GrowsByAppending(trainer[j].session_stats,
                               trainer'[j].session_stats)]_vars

\* C33 on the caller side in short sessions, outside the step in which a
\* start or resume handler installs the history of the new session
HistoryGrowsOutsideReset ==
    [][req.pc # "reset" => GrowsByAppending(history_points, history_points')]_vars

\* C33 at the entry of a resumed worker: session_stats starts as the history
\* of the checkpoint
ResumeRestoresStats ==
    [][\A j \in Jobs :
         ResumeEntry(j) => trainer'[j].session_stats = checkpoint.history]_vars

\* the last training_update the worker of job j sent has reached latest_stats
LastUpdateApplied(j) ==
    /\ progress_queue[j] = <<>>
    /\ lastSent[j] # NoMsg
         => observed[j] = <<lastSent[j].epoch, lastSent[j].time_step>>

\* C34: when the job thread writes the terminal status the worker is dead and
\* every training_update it enqueued, the last one included, has been applied
\* to latest_stats; from then on no progress message of the run is applied;
\* a poll tick and the drain after the exit leave no message pending
C34_DrainBeforeTerminal ==
    [][\A j \in Jobs :
         /\ WritesFinalStatus(j) => ~is_alive(j) /\ LastUpdateApplied(j)
         /\ jpc[j] = "finally" => observed'[j] = observed[j]
         /\ jpc[j] \in {"poll", "join"} /\ jpc'[j] # jpc[j]
              => progress_queue'[j] = <<>>]_vars

\* a run ended with a terminal status after its last update, sent between the
\* last poll tick and the exit of the worker, was applied by the final drain
C34_Witness ==
    \E j \in Jobs :
       /\ jpc[j] = "finally"
       /\ latest_stats.status \in TerminalStatuses
       /\ lastSent[j] # NoMsg
       /\ latest_stats.epoch = lastSent[j].epoch \/ latest_stats.status = "completed"
       /\ latest_stats.time_step = lastSent[j].time_step
       /\ observed[j] = <<lastSent[j].epoch, lastSent[j].time_step>>

\* the environment has taken a call of step whose action id is not one of
\* the STATES actions
InvalidActionCall ==
    /\ env' # env
    /\ env'.action # NoneVal
    /\ env'.action \notin 0..(STATES - 1)

\* C35: a step with an action id outside 0..46 is rejected before any reward
\* is applied: the call is not a step of the episode (the step count and the
\* capital stay as they were) and no reward is recorded for it
C35_InvalidActionFailsFast ==
    [][InvalidActionCall
         => /\ env'.steps = env.steps
            /\ env'.capital = env.capital
            /\ env'.reward = env.reward]_vars

\* the part of C35 the code keeps: an invalid action leaves the capital as
\* it was
InvalidActionKeepsCapital ==
    [][InvalidActionCall => env'.capital = env.capital]_vars

\* the weights read through the target handle change in this pass of the
\* step loop
TargetChanges == agent_log'.target # agent_log.target

\* C36: the weights of the target network change only in a pass of the step
\* loop whose time_step is a multiple of model_update_frequency (the hard
\* copy); in every other pass a replay changes the online weights only, in
\* fresh runs (two models) and in resumed runs
C36_TargetOnlyByHardCopy ==
    [][TargetChanges => agent_log.acted % UpdateFrequency = 0]_vars

\* C36 for the runs whose target handle is a model of its own
FreshTargetOnlyByHardCopy ==
    [][TargetChanges /\ ~agent_log.aliased
         => agent_log.acted % UpdateFrequency = 0]_vars

\* a validation rollout has been run in this step
ValidationStep == agent_log'.rollout # agent_log.rollout

\* C37: a validation rollout leaves the agent (its epsilon and its replay
\* memory) as it was, counts no replay and changes no weights, and every
\* action it selected on a state that is not all PAD is the arg-max action
C37_ValidationIsGreedyAndPure ==
    [][ValidationStep
         => /\ agent' = agent
            /\ agent_log'.replays = agent_log.replays
            /\ agent_log'.online = agent_log.online
            /\ \A i \in 1..Len(agent_log'.rollout) :
                 ~agent_log'.rollout[i].all_pad
                   => agent_log'.rollout[i].action = "greedy"]_vars

\* the part of C37 about what the rollout leaves alone
ValidationKeepsAgent ==
    [][ValidationStep
         => /\ agent' = agent
            /\ agent_log'.replays = agent_log.replays
            /\ agent_log'.online = agent_log.online
            /\ agent_log'.target = agent_log.target]_vars

\* C39: a run of more than replay_buffer_size steps (the step loop run to its
\* end: MaxTransitions steps, more than every replay_size drawn) eventually
\* has a training-ready agent that stays ready, whatever the relation of
\* max_memory_size to replay_buffer_size
C39_EventuallyReady == <>[]agent_is_training_ready(agent)

\* C39 for the configurations whose memory is larger than the replay size
ReadyWhenMemoryLarger ==
    (agent.memory_size > agent.replay_size) => <>[]agent_is_training_ready(agent)

\* whatever the number of steps, an agent whose memory is not larger than its
\* replay size is not ready: the deque never holds more than memory_size
NeverReadyWhenMemoryNotLarger ==
    (agent.memory_size <= agent.replay_size /\ agent.memory_size > 0)
        => /\ Len(agent.memory) <= agent.memory_size
           /\ ~agent_is_training_ready(agent)

\* every run of the step loop reaches its last step
RunReachesEnd == <>(agent_log.inserted = MaxTransitions)

\* a request of the given kind has been answered for an open session
Answered(call) ==
    /\ session.open
    /\ session' # session
    /\ session'.response.call = call

\* the session keeps its step count and its pending prediction
SessionTurnKept ==
    /\ session'.step_count = session.step_count
    /\ session'.prediction_pending = session.prediction_pending
    /\ session'.prediction_step = session.prediction_step

PlayTurns ==
    /\ Answered("next") =>
         IF session.prediction_pending
         THEN /\ session'.response.status = HTTP_409_CONFLICT
              /\ SessionTurnKept
         ELSE /\ session'.response.status = HTTP_200_OK
              /\ session'.prediction_pending
              /\ session'.step_count = session.step_count
    /\ Answered("step") =>
         IF ~session.prediction_pending
         THEN /\ session'.response.status = HTTP_400_BAD_REQUEST
              /\ SessionTurnKept
         ELSE IF session'.response.status = HTTP_200_OK
         THEN /\ ~session'.prediction_pending
              /\ session'.step_count = session.step_count + 1
         ELSE SessionTurnKept

StepRefusedWithoutPrediction ==
    /\ session.open
    /\ session.response.call = "step"
    /\ session.response.detail = "No prediction available for this step."
    /\ session.step_count = 1

\* a stop request has been rejected in this step
StopRejected == req.pc = "idle" /\ req'.pc = "reply" /\ req'.op = "stop"

\* C40: is_training is true only while a training job is active (started and
\* not yet returned), under every interleaving of the start handler with the
\* job thread; while it is false a stop request is answered 400 and changes
\* nothing
C40_TrainingOnlyWhileActive ==
    /\ [](is_training => is_job_running)
    /\ [][/\ (req.pc = "idle" /\ req'.op = "stop" /\ req'.pc # "idle"
                /\ ~is_training) => StopRejected
          /\ StopRejected
               => /\ req'.code = 400
                  /\ UNCHANGED <<tsVars, jobs, jobVars, chanVars, procVars,
                                 checkpoint, now, ghostVars>>]_vars

\* the part of C40 about the stop request
StopRejectedWhenIdle ==
    [][/\ (req.pc = "idle" /\ req'.op = "stop" /\ req'.pc # "idle"
             /\ ~is_training) => StopRejected
       /\ StopRejected
            => /\ req'.code = 400
               /\ ~is_training
               /\ UNCHANGED <<tsVars, jobs, jobVars, chanVars, procVars,
                              checkpoint, now, ghostVars>>]_vars

\* C40 outside the window of the start handler: once the handler has reset
\* the state before the job thread finishes, is_training follows the job
TrainingFollowsJobAfterReset ==
    [][(is_training' /\ ~is_training) => req.pc = "reset"]_vars

====
